---- MODULE Spec2Model ----
(***************************************************************************)
(* A model of the ripples DNS server (G5unit/ripples).                     *)
(*                                                                         *)
(* Spec      one vectorloop (shard): the thirteen stages of vl_run() over  *)
(*           the intrusive connection FIFOs, the TCP connection LRU, the   *)
(*           per-connection read buffer and query array, together with the *)
(*           kernel side of its sockets (clients, epoll, clock).           *)
(* SpecBss   the two support threads, the resource worker of ripples.c    *)
(*           and the query-log worker of query_log_loop.c, together with   *)
(*           vl_fn_channel_messages() and the query-log slabs of every     *)
(*           shard.                                                        *)
(*                                                                         *)
(* Memory is modelled at pointer level: a connection object is an address, *)
(* a FIFO is a (head, tail) pair and the links are the *_q_handle fields   *)
(* of the objects, so that the queue code is translated statement by       *)
(* statement.  A freed object keeps its last contents (the allocator does  *)
(* not clear them) and its address can be handed out again.                *)
(***************************************************************************)
EXTENDS Integers, Sequences, FiniteSets, TLC

(* ------------------------------ bounds -------------------------------- *)

\* heap slots available for TCP connection objects
MaxConnObjs == 3
\* last value of the real-time clock
MaxTime == 2
\* datagrams that arrive on the UDP listeners in a UDP run
MaxDgrams == 2
\* times a send buffer runs short, or a UDP socket reports an error, in a run
MaxStalls == 1
\* frames the client of a lone TCP connection sends in the run that looks
\* at one request under every fault
SoloFrames == 1
\* frames the client of a lone TCP connection sends in the run that looks
\* at a stream of requests
PipeFrames == 3
\* TCP connections that arrive, and the frames each client sends, in the
\* run that looks at connections side by side
PairArrivals == 2
PairFrames == 1
\* times a send buffer runs short in the run that looks at connections
\* whose writes stall side by side
PairStalls == 2
\* TCP connections that arrive in the run that uses up the connection ids
IdsArrivals == 4
\* shards (cfg->process_thread_count) that the two workers serve
NumShards == 2
\* times the resource worker finds its file changed and loads it
MaxUpdates == 2
\* bytes of one query-log entry, the room a slab must have for an entry to
\* be added, and the size of a slab, all in entries
EntryLen == 1
QUERY_LOG_BUF_MIN_SPACE == 1
query_log_buffer_size == 2
\* size at which the query-log writer starts a new file, in entries
query_log_rotate_size == 2
\* flip messages the query-log writer sends in a run
MaxFlips == 3
\* polls of the resource worker after which the 10 seconds it allows the
\* shards have passed
TenSeconds == 1
\* VL_RESOURCE_NOTIFY_WAIT_TIME_MAX, the limit of vectorloop_update_wait_time
VL_RESOURCE_NOTIFY_WAIT_TIME_MAX == 1000000000
\* length of the ring of an application log channel (1024 in the source)
CHANNEL_LOG_QUEUE_LEN == 2
\* messages the shards send to the application log in a run
MaxLogMsgs == 3
\* queries a shard resolves, and connections it releases, in a run
MaxQueries == 2
MaxCleans == 1
\* lengths of the client subnet options that are parsed (the option length
\* field has 16 bits), and their source masks
CsLens == {0, 3, 4, 5, 6, 7, 8, 20, 21, 260, 264, 276}
CsMasks == {0, 1, 7, 8, 9, 24, 25, 31, 32, 33, 64, 127, 128, 129}
\* iterations of vl_run that are followed
MaxIdle == 20
\* iterations of the loop of a shard whose locals are followed
MaxRuns == 3
\* stalls of a send buffer in such a run
RunStalls == 2
\* largest value of one half of the uint32_t idle counter, which the model
\* keeps as two halves of 16 bits
UINT16_MAX == 65535
\* values of tcp_conn_simultaneous_queries_count (1-255) that size the TCP
\* write buffer of the connections whose responses are packed
TcpSimCounts == {1, 128}
\* bytes kept of a request that is cut short, and bytes added after one
HeaderCuts == {5, 12, 14, 18, 20}
ExtraBytes == 3
\* sizes of an IPv4 and an IPv6 address
RIP_NS_INADDRSZ == 4
RIP_NS_IN6ADDRSZ == 16

(* ----------------------------- addresses ------------------------------ *)

NULL == 0

\* the two UDP listeners of vl_register_listeners (IPv4, IPv6)
UdpListeners == {1, 2}

\* the two TCP listeners of vl_register_listeners (IPv4, IPv6)
TcpListeners == {3, 4}

\* addresses malloc can return for a conn_t made by conn_new_tcp
Heap == 5 .. (4 + MaxConnObjs)

Addr == UdpListeners \cup TcpListeners \cup Heap

CONN_IS_UDP_LISTENER(c) == c \in UdpListeners

CONN_IS_TCP_LISTENER(c) == c \in TcpListeners

CONN_IS_TCP_CONN(c) == c \in Heap

(* ------------------------ constants of the code ------------------------ *)

RIP_NS_PACKETSZ == 512
CHANNEL_BSS_QUEUE_LEN == 2

rip_ns_r_noerror == 0

rip_ns_r_formerr == 1

rip_ns_r_rip_unknown == -1
rip_ns_r_notimpl == 4
rip_ns_r_badvers == 16
\* opcode, record types, class and option code the server knows
rip_ns_o_query == 0
rip_ns_t_a == 1
rip_ns_t_ns == 2
rip_ns_t_aaaa == 28
rip_ns_t_opt == 41
rip_ns_c_in == 1
rip_ns_ext_opt_c_cs == 8
\* largest UDP response, longest compressed name, fixed part of a record
RIP_NS_UDP_MAXMSG == 4096
RIP_NS_MAXCDNAME == 255
RIP_NS_RRFIXEDSZ == 10

rip_ns_r_rip_shortheader == -2

rip_ns_r_rip_query_tc == -4

rip_ns_r_rip_tcp_write_err == -6

rip_ns_r_rip_tcp_write_close == -7

\* sizeof(rip_ns_header_t)
sizeof_rip_ns_header_t == 12

(* ------------------- configuration values of the run ------------------- *)

\* cfg->tcp_conns_per_vl_max
tcp_conns_per_vl_max == 1
\* cfg->tcp_listener_max_accept_new_conn
tcp_listener_max_accept_new_conn == 1
\* cfg->tcp_conn_simultaneous_queries_count
tcp_conn_simultaneous_queries_count == 2
\* cfg->tcp_keepalive
tcp_keepalive == 2
\* cfg->tcp_query_recv_timeout
tcp_query_recv_timeout == 1
\* cfg->tcp_query_send_timeout
tcp_query_send_timeout == 1
\* cfg->udp_conn_vector_len
udp_conn_vector_len == 2

\* config.c: tcp_readbuff_size = simultaneous queries * (2 + RIP_NS_PACKETSZ)
tcp_readbuff_size == tcp_conn_simultaneous_queries_count * (2 + RIP_NS_PACKETSZ)

\* UINTMAX_MAX of conn_tcp_id_assign, for a connection id of this width
UINTMAX_MAX == 2

(* --------------------------- small helpers ----------------------------- *)

Min(a, b) == IF a < b THEN a ELSE b

\* a size_t that went below zero is kept as the negative number it stands
\* for (2^64 - k is kept as -k); these are the unsigned comparisons on it
SzIsZero(a) == a = 0

SzGtZero(a) == a # 0

SzLeq(a, b) == IF b < 0 THEN (a >= 0 \/ a <= b) ELSE (a >= 0 /\ a <= b)

(* ------------------------- bytes on a TCP stream ----------------------- *)

\* A run of n equal bytes b.  q is the query the bytes belong to (its number
\* on the connection) and k says which part of the frame they are: "hi" and
\* "lo" are the two bytes of the length prefix, anything else names the DNS
\* message that follows it.
Cell(b, n, q, k) == [b |-> b, n |-> n, q |-> q, k |-> k]

\* the DNS messages a client sends: a well-formed query for the root, a
\* message shorter than a DNS header, a message longer than RIP_NS_PACKETSZ
FrameKinds == {"ok", "short", "big"}

PayLen(k) == CASE k = "ok" -> 17 [] k = "short" -> 5 [] OTHER -> RIP_NS_PACKETSZ + 1

\* the bytes of frame number q of kind k (of an oversized message the client
\* gets to send the length prefix only)
FrameCells(k, q) ==
  << Cell(PayLen(k) \div 256, 1, q, "hi"), Cell(PayLen(k) % 256, 1, q, "lo") >>
  \o (IF k = "big" THEN << >> ELSE << Cell(0, PayLen(k), q, k) >>)

RECURSIVE CellsLen(_)
CellsLen(cs) == IF cs = << >> THEN 0 ELSE Head(cs).n + CellsLen(Tail(cs))

RECURSIVE TakeBytes(_, _)
TakeBytes(cs, n) ==
  IF n <= 0 \/ cs = << >> THEN << >>
  ELSE IF Head(cs).n <= n THEN << Head(cs) >> \o TakeBytes(Tail(cs), n - Head(cs).n)
  ELSE << [Head(cs) EXCEPT !.n = n] >>

RECURSIVE DropBytes(_, _)
DropBytes(cs, n) ==
  IF n <= 0 \/ cs = << >> THEN cs
  ELSE IF Head(cs).n <= n THEN DropBytes(Tail(cs), n - Head(cs).n)
  ELSE << [Head(cs) EXCEPT !.n = @ - n] >> \o Tail(cs)

\* concatenation; two pieces of one message become one run again
CatBytes(a, b) ==
  IF a = << >> THEN b
  ELSE IF b = << >> THEN a
  ELSE LET x == a[Len(a)]
           y == b[1]
       IN IF x.q = y.q /\ x.k = y.k /\ x.k \notin {"hi", "lo"}
          THEN SubSeq(a, 1, Len(a) - 1) \o << [x EXCEPT !.n = @ + y.n] >> \o Tail(b)
          ELSE a \o b

\* byte i (from 0) of cs; a byte past the end is not initialised and reads
\* as `stale`
ByteAt(cs, i, stale) ==
  LET r == DropBytes(cs, i) IN IF r = << >> THEN stale ELSE r[1].b

\* ntohs(*(uint16_t *)buf)
ntohs(cs, stale) == ByteAt(cs, 0, stale) * 256 + ByteAt(cs, 1, stale)

\* values an uninitialised byte of a read buffer is read as
StaleBytes == {0, 255}

(* ------------------------------- state --------------------------------- *)

VARIABLES
  pc,     \* the stage of the vl_run loop that runs next
  now,    \* the real-time clock
  cfg,    \* the configuration of the run (which listeners are enabled)
  halt,   \* "run", or how the shard thread stopped
  errno,  \* errno of the shard thread
  mem,    \* the conn_t objects, by address
  tcp,    \* the conn_tcp_t object of each TCP connection object
  udp,    \* the conn_udp_t object of each UDP listener
  vl,     \* the vectorloop_t object of the shard
  kern,   \* the kernel: sockets, listen backlogs, epoll ready lists
  gh,     \* history of each TCP connection: bytes written, queries logged
  app_log_fatal, \* a fatal message was sent on the application log channel
  vls,    \* for every shard, its channels and its query-log slabs
  res,    \* the resource worker
  qlw,    \* the query-log worker
  alog,   \* the application log: its channels, its worker and its counter
  rr,     \* the records of query_resolve and the shard threads that use them
  qt      \* one call of a function of the query code: its input and its result

vars == << pc, now, cfg, halt, errno, mem, tcp, udp, vl, kern, gh, app_log_fatal,
          vls, res, qlw, alog, rr, qt >>

\* the part of the state the stages of the loop work on, as one value, at
\* the start of a stage
State == [mem |-> mem, tcp |-> tcp, udp |-> udp, vl |-> [vl EXCEPT !.seen = {}, !.visits = {}, !.revisit = FALSE], kern |-> kern,
          gh |-> gh, errno |-> errno, halt |-> halt, fatal |-> app_log_fatal]

\* (vl.ret is the value the running stage function returns; it is handed
\* to vl_run and is gone when the stage has returned)
Install(S) ==
  /\ mem' = S.mem /\ tcp' = S.tcp /\ udp' = S.udp /\ vl' = [S.vl EXCEPT !.ret = 0]
  /\ kern' = S.kern /\ gh' = S.gh /\ errno' = S.errno /\ halt' = S.halt
  /\ app_log_fatal' = S.fatal

Stop(S, how) == IF S.halt = "run" THEN [S EXCEPT !.halt = how] ELSE S

\* An access through a pointer to a freed object is undefined: the build
\* either faults or goes on with what the memory holds.
Deref(S, c, ub) ==
  IF c = NULL THEN S
  ELSE IF S.mem[c].alloc \/ ub = "go" THEN S ELSE Stop(S, "crashed")

UbChoices == {"go", "crash"}

(* --------------------------- conn_t and FIFOs -------------------------- *)

\* *conn = (conn_t) { ... } of conn_new_tcp and conn_listener_provision
conn_new(fd) ==
  [alloc |-> TRUE, cid |-> 0, fd |-> fd,
   in_read_queue |-> 0, in_write_queue |-> 0, in_release_queue |-> 0,
   waiting_for_read |-> 0, waiting_for_write |-> 0,
   read_q_handle |-> NULL, write_q_handle |-> NULL, gen_q_handle |-> NULL]

\* memory malloc has not handed out yet
conn_unused == [conn_new(-1) EXCEPT !.alloc = FALSE]

EmptyQueue == [head |-> NULL, tail |-> NULL]

\* the body shared by the four enqueue functions: link conn at the tail
fifo_link(S, qn, c, handle) ==
  LET S1 == [S EXCEPT !.mem[c][handle] = NULL]
  IN IF S1.vl[qn].head = NULL
     THEN [S1 EXCEPT !.vl[qn] = [head |-> c, tail |-> c]]
     ELSE [S1 EXCEPT !.mem[S1.vl[qn].tail][handle] = c, !.vl[qn].tail = c]

\* the body shared by the four dequeue functions: unlink the head.  With
\* head NULL and tail not, conn->handle reads through a NULL pointer.
\* (seen is history: the objects dequeued since the running stage began;
\* visits says from which queue, and revisit that one of them was dequeued
\* from the same queue a second time)
fifo_unlink(S, qn, handle) ==
  LET c == S.vl[qn].head
      T == [S EXCEPT !.vl.seen = IF c = NULL THEN @ ELSE @ \cup {c},
                     !.vl.visits = IF c = NULL THEN @ ELSE @ \cup {<< qn, c >>},
                     !.vl.revisit = @ \/ (c # NULL /\ << qn, c >> \in S.vl.visits)]
  IN IF c = T.vl[qn].tail THEN [T EXCEPT !.vl[qn] = EmptyQueue]
     ELSE IF c = NULL THEN Stop(T, "crashed")
     ELSE [T EXCEPT !.vl[qn].head = T.mem[c][handle]]

fifo_head(S, qn) == S.vl[qn].head

\* conn_fifo_enqueue_read without its test of in_read_queue
conn_fifo_enqueue_read_always(S, qn, c) ==
  [fifo_link(S, qn, c, "read_q_handle") EXCEPT !.mem[c].in_read_queue = 1]

conn_fifo_enqueue_read(S, qn, c) ==
  IF S.mem[c].in_read_queue = 0
  THEN [fifo_link(S, qn, c, "read_q_handle") EXCEPT !.mem[c].in_read_queue = 1]
  ELSE S

conn_fifo_dequeue_read(S, qn) ==
  LET c == fifo_head(S, qn)
      D == fifo_unlink(S, qn, "read_q_handle")
  IN IF c # NULL /\ D.halt = "run" THEN [D EXCEPT !.mem[c].in_read_queue = 0] ELSE D

conn_fifo_enqueue_gen(S, qn, c) == fifo_link(S, qn, c, "gen_q_handle")

conn_fifo_dequeue_gen(S, qn) == fifo_unlink(S, qn, "gen_q_handle")

conn_fifo_enqueue_write(S, qn, c) ==
  IF S.mem[c].in_write_queue = 0
  THEN [fifo_link(S, qn, c, "write_q_handle") EXCEPT !.mem[c].in_write_queue = 1]
  ELSE S

conn_fifo_dequeue_write(S, qn) ==
  LET c == fifo_head(S, qn)
      D == fifo_unlink(S, qn, "write_q_handle")
  IN IF c # NULL /\ D.halt = "run" THEN [D EXCEPT !.mem[c].in_write_queue = 0] ELSE D

conn_fifo_enqueue_release(S, qn, c) ==
  IF S.mem[c].in_release_queue = 0
  THEN [fifo_link(S, qn, c, "gen_q_handle") EXCEPT !.mem[c].in_release_queue = 1]
  ELSE S

conn_fifo_dequeue_release(S, qn) ==
  LET c == fifo_head(S, qn)
      D == fifo_unlink(S, qn, "gen_q_handle")
  IN IF c # NULL /\ D.halt = "run" THEN [D EXCEPT !.mem[c].in_release_queue = 0] ELSE D

\* the loop of conn_fifo_remove_from_read_queue: every dequeued conn other
\* than conn_rm goes back into the queue being drained, so the loop ends
\* only if the queue runs empty; `fuel` bounds the unrolling, and a loop
\* that outlives it never ends
RECURSIVE remove_read_loop(_, _, _, _)
remove_read_loop(S, qn, rm, fuel) ==
  LET c == fifo_head(S, qn)
      D == conn_fifo_dequeue_read(S, qn)
  IN IF D.halt # "run" \/ c = NULL THEN D
     ELSE IF fuel = 0 THEN Stop(D, "hung")
     ELSE remove_read_loop(IF c # rm THEN conn_fifo_enqueue_read(D, qn, c) ELSE D,
                           qn, rm, fuel - 1)

conn_fifo_remove_from_read_queue(S, qn, rm) ==
  IF S.mem[rm].in_read_queue # 0
  THEN remove_read_loop(S, qn, rm, 2 * Cardinality(Addr))
  ELSE S

RECURSIVE remove_write_loop(_, _, _, _)
remove_write_loop(S, qn, rm, fuel) ==
  LET c == fifo_head(S, qn)
      D == conn_fifo_dequeue_write(S, qn)
  IN IF D.halt # "run" \/ c = NULL THEN D
     ELSE IF fuel = 0 THEN Stop(D, "hung")
     ELSE remove_write_loop(IF c # rm THEN conn_fifo_enqueue_write(D, qn, c) ELSE D,
                            qn, rm, fuel - 1)

\* the guard tests in_read_queue, as the source does
conn_fifo_remove_from_write_queue(S, qn, rm) ==
  IF S.mem[rm].in_read_queue # 0
  THEN remove_write_loop(S, qn, rm, 2 * Cardinality(Addr))
  ELSE S

(* ------------------------- the TCP connection LRU ---------------------- *)

\* The uthash table conn_tcp_lru_cache is kept as the list of its items in
\* insertion order, which is the order HASH_ITER walks and the order the
\* header lru_cache.h relies on (oldest first).

InLru(S, c) == \E i \in 1 .. Len(S.vl.conn_tcp_lru_cache) : S.vl.conn_tcp_lru_cache[i] = c

\* HASH_FIND(hh, *lru, &id, sizeof(uint64_t), entry)
HASH_FIND(S, id) ==
  LET L == S.vl.conn_tcp_lru_cache
      hit == { i \in 1 .. Len(L) : S.mem[L[i]].cid = id }
  IN IF hit = {} THEN NULL ELSE L[CHOOSE i \in hit : \A j \in hit : i <= j]

LRU_CACHE_ADD(S, c) == [S EXCEPT !.vl.conn_tcp_lru_cache = Append(@, c)]

\* HASH_DELETE of an item that is not in the table is undefined; with the
\* zeroed hash handle of an object that was never added uthash takes the
\* item for the last one and drops the whole table, or faults
LRU_CACHE_DEL(S, c, ub) ==
  IF InLru(S, c)
  THEN [S EXCEPT !.vl.conn_tcp_lru_cache = SelectSeq(@, LAMBDA x : x # c)]
  ELSE IF ub = "go" /\ S.vl.conn_tcp_lru_cache # << >>
  THEN [S EXCEPT !.vl.conn_tcp_lru_cache = << >>]
  ELSE Stop(S, "crashed")

\* the found entry, or NULL; a found entry becomes the most recently used
conn_lru_cache_get(S, id) ==
  LET e == HASH_FIND(S, id)
  IN IF e # NULL THEN LRU_CACHE_ADD(LRU_CACHE_DEL(S, e, "go"), e) ELSE S

\* the id conn_tcp_id_assign stores in *id and *base, or -1 for `false`
conn_tcp_id_assign(S) ==
  LET base == S.vl.conn_tcp_id_base
      free(i) == HASH_FIND(S, i) = NULL
      up == { i \in (base + 1) .. (UINTMAX_MAX - 1) : free(i) }
      down == { i \in 0 .. (base - 1) : free(i) }
  IN IF up # {} THEN CHOOSE i \in up : \A j \in up : i <= j
     ELSE IF down # {} THEN CHOOSE i \in down : \A j \in down : i <= j
     ELSE -1

(* ------------------------------ queries -------------------------------- *)

\* query_init: the fields of query_t the pipeline of a TCP connection uses;
\* q is the number of the frame the request came in (0: no whole frame) and
\* k the message it holds; `parsed` and `resolved` are history: the end code
\* the parse stage left, and whether query_resolve was called for the query
query_init ==
  [q |-> 0, k |-> "none", request_buffer_len |-> 0,
   end_code |-> rip_ns_r_rip_unknown, response_buffer_len |-> 0,
   parsed |-> rip_ns_r_rip_unknown, resolved |-> FALSE]

query_reset(qr) ==
  [qr EXCEPT !.request_buffer_len = 0, !.response_buffer_len = 0,
             !.end_code = rip_ns_r_rip_unknown,
             !.parsed = rip_ns_r_rip_unknown, !.resolved = FALSE]

\* query_parse: the checks on the header.  A request that is not a whole
\* client message ("junk") has a header of zero bytes here: opcode query,
\* no flags, qdcount 0.
query_parse(qr) ==
  LET e == IF qr.request_buffer_len < sizeof_rip_ns_header_t
           THEN rip_ns_r_rip_shortheader
           ELSE IF qr.k = "ok" THEN rip_ns_r_rip_unknown
           ELSE rip_ns_r_formerr
  IN [qr EXCEPT !.end_code = e, !.parsed = e]

\* query_resolve: every question gets the static answer
query_resolve(qr) == [qr EXCEPT !.end_code = rip_ns_r_noerror, !.resolved = TRUE]

\* query_response_pack: header, question and answers; only the length of
\* the packed response matters to the write stage, and it is taken to be
\* that of the request plus the two bytes of the TCP length prefix
query_response_pack(qr) == [qr EXCEPT !.response_buffer_len = qr.request_buffer_len + 2]

(* --------------------------- conn_tcp_t -------------------------------- *)

\* *conn_tcp = (conn_tcp_t) { } of conn_new_tcp; `entered`, `event` and
\* `attempt` are history: the loop timestamp at which `state` was last
\* assigned, that of the last accept, partial read or write completion with
\* bytes left, and that of the first write() since the responses were packed
\* (-1: none yet); `term` is the terminal state last assigned ("none": none)
conn_tcp_new ==
  [state |-> "TCP_CONN_ST_ASSIGN_CONN_ID_ERR", timeout |-> 0,
   read_buffer |-> << >>, read_buffer_len |-> 0,
   queries |-> [i \in 1 .. tcp_conn_simultaneous_queries_count |-> query_init],
   queries_count |-> 0, query_write_index |-> 0, write_index |-> 0,
   tcp_keepalive |-> 0, entered |-> 0, event |-> 0, attempt |-> -1,
   term |-> "none"]

\* the states of conn_tcp_state_t in which a connection has ended
TerminalStates ==
  {"TCP_CONN_ST_CLOSED_FOR_READ", "TCP_CONN_ST_CLOSED_FOR_WRITE",
   "TCP_CONN_ST_READ_ERR", "TCP_CONN_ST_WRITE_ERR",
   "TCP_CONN_ST_ASSIGN_CONN_ID_ERR", "TCP_CONN_ST_QUERY_SIZE_TOOLARGE"}

SetState(S, c, st) ==
  [S EXCEPT !.tcp[c].state = st, !.tcp[c].entered = S.vl.loop_timestamp,
            !.tcp[c].term = IF st \in TerminalStates THEN st ELSE @]

(* ------------------------------ the kernel ----------------------------- *)

\* A TCP socket: st is "none" (no socket), "open", "fin" (the peer closed
\* its side) or "rst" (the connection was reset); rx the bytes received and
\* not yet read; tx the room in the send buffer ("free", "late": one more
\* write and a byte, "short": one more byte, "full"); sent and pend the client's progress (frames begun, bytes
\* of the current frame still to send).
sock_none == [st |-> "none", rx |-> << >>, tx |-> "free", sent |-> 0, pend |-> << >>]

sock_open == [sock_none EXCEPT !.st = "open"]

\* an EPOLLIN edge for the object at address c on the TCP epoll instance
ep_raise(K, c) ==
  IF \E i \in 1 .. Len(K.ep_tcp) : K.ep_tcp[i] = c THEN K
  ELSE [K EXCEPT !.ep_tcp = Append(@, c)]

\* close(fd) and vl_epoll_ctl_del: the socket and its pending events go
sys_close(S, c) ==
  [S EXCEPT !.kern.sock[c] = sock_none,
            !.kern.ep_tcp = SelectSeq(@, LAMBDA x : x # c)]

\* read(fd, buf, count): the return value, the bytes delivered and the
\* state afterwards
sys_read(S, c, count) ==
  LET sk == S.kern.sock[c]
      n == Min(count, CellsLen(sk.rx))
  IN IF S.mem[c].fd < 0 \/ sk.st = "none"
     THEN [ret |-> -1, data |-> << >>, S |-> [S EXCEPT !.errno = "EBADF"]]
     ELSE IF sk.st = "rst"
     THEN [ret |-> -1, data |-> << >>, S |-> [S EXCEPT !.errno = "ECONNRESET"]]
     ELSE IF count = 0
     THEN [ret |-> 0, data |-> << >>, S |-> S]
     ELSE IF sk.rx # << >>
     THEN [ret |-> n, data |-> TakeBytes(sk.rx, n),
           S |-> [S EXCEPT !.kern.sock[c].rx = DropBytes(sk.rx, n)]]
     ELSE IF sk.st = "fin"
     THEN [ret |-> 0, data |-> << >>, S |-> S]
     ELSE [ret |-> -1, data |-> << >>, S |-> [S EXCEPT !.errno = "EAGAIN"]]

\* write(fd, buf, len)
sys_write(S, c, len) ==
  LET sk == S.kern.sock[c]
  IN IF S.mem[c].fd < 0 \/ sk.st = "none"
     THEN [ret |-> -1, S |-> [S EXCEPT !.errno = "EBADF"]]
     ELSE IF len < 0
     THEN [ret |-> -1, S |-> [S EXCEPT !.errno = "EFAULT"]]
     ELSE IF len = 0
     THEN [ret |-> 0, S |-> S]
     ELSE IF sk.st = "rst"
     THEN [ret |-> -1, S |-> [S EXCEPT !.errno = "EPIPE"]]
     ELSE IF sk.tx = "full"
     THEN [ret |-> -1, S |-> [S EXCEPT !.errno = "EAGAIN"]]
     ELSE IF sk.tx = "short"
     THEN [ret |-> 1, S |-> [S EXCEPT !.kern.sock[c].tx = "full"]]
     ELSE IF sk.tx = "late"
     THEN [ret |-> len, S |-> [S EXCEPT !.kern.sock[c].tx = "short"]]
     ELSE [ret |-> len, S |-> S]

\* accept4(listener): TRUE with a connection taken off the backlog, or
\* FALSE with errno EAGAIN
sys_accept4(S, l) ==
  IF S.kern.backlog[l] > 0
  THEN [ok |-> TRUE, S |-> [S EXCEPT !.kern.backlog[l] = @ - 1]]
  ELSE [ok |-> FALSE, S |-> [S EXCEPT !.errno = "EAGAIN"]]

\* malloc for a connection object: a first-fit allocator, which hands out
\* the lowest free address (and so reuses freed memory at once)
malloc(S) == CHOOSE a \in Heap : ~S.mem[a].alloc /\ \A b \in Heap : ~S.mem[b].alloc => a <= b

IsEAGAIN(e) == e = "EAGAIN"

(* ------------------------- stages of the loop -------------------------- *)

\* the local new_queue of a stage goes out of scope when the stage returns
DropLocal(S) == [S EXCEPT !.vl.new_queue = EmptyQueue]

\* "if (new_queue.head != NULL) { queue.head = ...; queue.tail = ...; }"
Repopulate(S, qn) ==
  DropLocal(IF S.vl.new_queue.head # NULL /\ S.halt = "run"
            THEN [S EXCEPT !.vl[qn] = S.vl.new_queue] ELSE S)

RECURSIVE epoll_udp_events(_, _)
epoll_udp_events(S, evs) ==
  IF evs = << >> THEN S
  ELSE LET c == Head(evs).c
           S1 == IF Head(evs).in /\ S.mem[c].waiting_for_read # 0
                 THEN conn_fifo_enqueue_read([S EXCEPT !.mem[c].waiting_for_read = 0],
                                             "conn_udp_read_queue", c)
                 ELSE S
           S2 == IF Head(evs).out /\ S1.mem[c].waiting_for_write # 0
                 THEN conn_fifo_enqueue_write([S1 EXCEPT !.mem[c].waiting_for_write = 0],
                                              "conn_udp_write_queue", c)
                 ELSE S1
       IN epoll_udp_events(S2, Tail(evs))

\* TCP sockets are registered for EPOLLIN only (vl_epoll_ctl_reg_for_read_et)
\* and the listeners never fill a send buffer: every TCP event is EPOLLIN
RECURSIVE epoll_tcp_events(_, _)
epoll_tcp_events(S, evs) ==
  IF evs = << >> THEN S
  ELSE LET c == Head(evs)
           S1 == IF CONN_IS_TCP_LISTENER(c)
                 THEN conn_fifo_enqueue_read([S EXCEPT !.mem[c].waiting_for_read = 0],
                                             "conn_tcp_accept_conns_queue", c)
                 ELSE IF S.mem[c].waiting_for_read # 0
                 THEN conn_fifo_enqueue_read([S EXCEPT !.mem[c].waiting_for_read = 0],
                                             "conn_tcp_read_queue", c)
                 ELSE S
       IN epoll_tcp_events(S1, Tail(evs))

\* returns event_count, the events of the two epoll instances
vl_fn_epoll(S) ==
  LET U == epoll_udp_events([S EXCEPT !.kern.ep_udp = << >>,
                                      !.vl.ret = Len(S.kern.ep_udp) + Len(S.kern.ep_tcp)],
                            S.kern.ep_udp)
  IN epoll_tcp_events([U EXCEPT !.kern.ep_tcp = << >>], U.kern.ep_tcp)

\* accept_max = tcp_conns_per_vl_max - conns_tcp_active (size_t to int),
\* then "if (accept_max > tcp_listener_max_accept_new_conn)" compared as
\* size_t, so that a negative accept_max is the largest
accept_max_of(S) ==
  LET d == cfg.tcp_conns_per_vl_max - S.vl.conns_tcp_active
  IN IF d < 0 \/ d > tcp_listener_max_accept_new_conn
     THEN tcp_listener_max_accept_new_conn ELSE d

\* accept_one with the keepalive for the timeout of a new connection
accept_one_keepalive(S) ==
  LET a == malloc(S)
      S1 == [S EXCEPT !.mem[a] = conn_new(a),
                      !.kern.sock[a] = sock_open,
                      !.gh[a] = [wire |-> << >>, logged |-> << >>],
                      !.tcp[a] = [conn_tcp_new EXCEPT
                                    !.timeout = S.vl.loop_timestamp + tcp_keepalive,
                                    !.state = "TCP_CONN_ST_WAIT_FOR_QUERY_DATA",
                                    !.entered = S.vl.loop_timestamp,
                                    !.event = S.vl.loop_timestamp]]
      id == conn_tcp_id_assign(S1)
  IN IF id < 0
     THEN conn_fifo_enqueue_release(
            SetState([sys_close(S1, a) EXCEPT !.mem[a].fd = -1], a,
                     "TCP_CONN_ST_ASSIGN_CONN_ID_ERR"),
            "conn_tcp_release_queue", a)
     ELSE [LRU_CACHE_ADD([S1 EXCEPT !.mem[a].cid = id, !.vl.conn_tcp_id_base = id], a)
             EXCEPT !.mem[a].waiting_for_read = 1,
                    !.vl.conns_tcp_active = @ + 1]

\* the body of the inner while loop of vl_fn_tcp_accept_conns for one
\* accepted socket
accept_one(S) ==
  LET a == malloc(S)
      S1 == [S EXCEPT !.mem[a] = conn_new(a),
                      !.kern.sock[a] = sock_open,
                      !.gh[a] = [wire |-> << >>, logged |-> << >>],
                      !.tcp[a] = [conn_tcp_new EXCEPT
                                    !.timeout = S.vl.loop_timestamp + tcp_query_recv_timeout,
                                    !.state = "TCP_CONN_ST_WAIT_FOR_QUERY_DATA",
                                    !.entered = S.vl.loop_timestamp,
                                    !.event = S.vl.loop_timestamp]]
      id == conn_tcp_id_assign(S1)
  IN IF id < 0
     THEN conn_fifo_enqueue_release(
            SetState([sys_close(S1, a) EXCEPT !.mem[a].fd = -1], a,
                     "TCP_CONN_ST_ASSIGN_CONN_ID_ERR"),
            "conn_tcp_release_queue", a)
     ELSE [LRU_CACHE_ADD([S1 EXCEPT !.mem[a].cid = id, !.vl.conn_tcp_id_base = id], a)
             EXCEPT !.mem[a].waiting_for_read = 1,
                    !.vl.conns_tcp_active = @ + 1]

\* the inner while loop: accept4 is called before accept_count is looked
\* at, so the socket accepted on the last round is dropped
RECURSIVE accept_inner(_, _, _)
accept_inner(S, l, n) ==
  LET A == sys_accept4(S, l)
  IN IF ~A.ok THEN [S |-> A.S, n |-> n, fd |-> -1]
     ELSE IF ~(n < tcp_listener_max_accept_new_conn) THEN [S |-> A.S, n |-> n, fd |-> 0]
     ELSE accept_inner(accept_one(A.S), l, n + 1)

RECURSIVE accept_loop(_, _)
accept_loop(S, n) ==
  LET l == fifo_head(S, "conn_tcp_accept_conns_queue")
      D == conn_fifo_dequeue_read(S, "conn_tcp_accept_conns_queue")
      accept_max == accept_max_of(D)
      I == accept_inner(D, l, n)
  IN IF S.halt # "run" THEN DropLocal(S)
     ELSE IF D.halt # "run" \/ l = NULL
     THEN Repopulate([D EXCEPT !.vl.ret = n], "conn_tcp_accept_conns_queue")
     ELSE IF I.fd < 0 \/ accept_max <= 0
     THEN IF IsEAGAIN(I.S.errno)
          THEN accept_loop([I.S EXCEPT !.mem[l].waiting_for_read = 1], I.n)
          ELSE DropLocal([I.S EXCEPT !.fatal = TRUE])
     ELSE accept_loop(conn_fifo_enqueue_read(I.S, "new_queue", l), I.n)

vl_fn_tcp_accept_conns(S) == accept_loop(S, 0)

\* the request the frame at the front of `rest` holds: the query a client
\* sent if the frame is exactly one of its messages, else bytes that are
\* no message of anyone ("junk")
FrameAt(rest, q_len) ==
  IF /\ Len(rest) >= 3
     /\ rest[1].k = "hi" /\ rest[2].k = "lo" /\ rest[2].q = rest[1].q
     /\ rest[3].q = rest[1].q /\ rest[3].k \notin {"hi", "lo"} /\ rest[3].n = q_len
  THEN [q |-> rest[1].q, k |-> rest[3].k]
  ELSE [q |-> 0, k |-> "junk"]

\* the for loop of vl_fn_tcp_read over the frames in the read buffer, from
\* round i on; rest is the buffer from `buf` on and blen is buf_len
RECURSIVE read_frames(_, _, _, _, _, _)
read_frames(S, c, i, rest, blen, stale) ==
  IF ~(i < tcp_conn_simultaneous_queries_count)
  THEN [S |-> S, i |-> i, not_full_query |-> FALSE]
  ELSE LET q_len == ntohs(rest, stale)
           S1 == IF q_len > RIP_NS_PACKETSZ
                 THEN conn_fifo_enqueue_release(
                        SetState(S, c, "TCP_CONN_ST_QUERY_SIZE_TOOLARGE"),
                        "conn_tcp_release_queue", c)
                 ELSE S
           f == FrameAt(rest, q_len)
       IN IF SzLeq(q_len + 2, blen)
          THEN read_frames(
                 [S1 EXCEPT !.tcp[c].queries[i + 1] =
                               [@ EXCEPT !.q = f.q, !.k = f.k, !.request_buffer_len = q_len]],
                 c, i + 1, DropBytes(rest, q_len + 2), blen - (q_len + 2), stale)
          ELSE [S |-> IF i = 0 THEN [S1 EXCEPT !.mem[c].waiting_for_read = 1] ELSE S1,
                i |-> i, not_full_query |-> (i = 0)]

\* the body of the while loop of vl_fn_tcp_read for the dequeued conn
tcp_read_conn(S0, c, stale, ub) ==
  LET Sa == Deref(S0, c, ub)
      S1 == IF HASH_FIND(Sa, Sa.mem[c].cid) # NULL
            THEN conn_lru_cache_get(Sa, Sa.mem[c].cid)
            ELSE IF ub = "go" THEN Sa ELSE Stop(Sa, "crashed")
      t0 == S1.tcp[c]
      S2 == [S1 EXCEPT !.tcp[c].queries =
                          [i \in DOMAIN @ |->
                             IF i <= t0.queries_count THEN query_reset(@[i]) ELSE @[i]],
                       !.tcp[c].queries_count = 0]
      R == sys_read(S2, c, tcp_readbuff_size - t0.read_buffer_len)
      len1 == t0.read_buffer_len + R.ret
      buf1 == IF R.ret > 0
              THEN IF t0.read_buffer_len >= 0
                   THEN CatBytes(t0.read_buffer, R.data)
                   ELSE DropBytes(R.data, 0 - t0.read_buffer_len)
              ELSE TakeBytes(t0.read_buffer, len1)
      S3 == [R.S EXCEPT !.tcp[c].read_buffer = buf1, !.tcp[c].read_buffer_len = len1]
      \* bytes stored in front of the buffer: undefined
      S4 == IF R.ret > 0 /\ t0.read_buffer_len < 0 /\ ub = "crash"
            THEN Stop(S3, "crashed") ELSE S3
      S5 == IF R.ret < 0
            THEN conn_fifo_enqueue_release(SetState(S4, c, "TCP_CONN_ST_READ_ERR"),
                                           "conn_tcp_release_queue", c)
            ELSE S4
      F == read_frames(S5, c, 0, buf1, len1, stale)
      G == IF F.S.tcp[c].state = "TCP_CONN_ST_WAIT_FOR_QUERY"
           THEN [SetState(F.S, c, "TCP_CONN_ST_WAIT_FOR_QUERY_DATA") EXCEPT
                   !.tcp[c].timeout = S0.vl.loop_timestamp + tcp_query_recv_timeout]
           ELSE F.S
  IN IF S4.halt # "run" THEN S4
     ELSE IF R.ret = 0
     THEN conn_fifo_enqueue_release(SetState(S4, c, "TCP_CONN_ST_CLOSED_FOR_READ"),
                                    "conn_tcp_release_queue", c)
     ELSE IF R.ret < 0 /\ IsEAGAIN(S4.errno)
     THEN [(IF SzIsZero(len1)
            THEN [SetState(S4, c, "TCP_CONN_ST_WAIT_FOR_QUERY") EXCEPT
                    !.tcp[c].timeout = S0.vl.loop_timestamp + t0.tcp_keepalive]
            ELSE S4)
           EXCEPT !.mem[c].waiting_for_read = 1]
     ELSE IF F.not_full_query
     THEN conn_fifo_enqueue_read(
            [G EXCEPT !.tcp[c].event = IF R.ret > 0 THEN S0.vl.loop_timestamp ELSE @],
            "new_queue", c)
     ELSE conn_fifo_enqueue_gen([F.S EXCEPT !.tcp[c].queries_count = F.i],
                                "query_parse_queue", c)

RECURSIVE tcp_read_loop(_, _, _)
tcp_read_loop(S, stale, ub) ==
  LET c == fifo_head(S, "conn_tcp_read_queue")
      D == conn_fifo_dequeue_read(S, "conn_tcp_read_queue")
  IN IF S.halt # "run" THEN S
     ELSE IF D.halt # "run" \/ c = NULL THEN D
     ELSE tcp_read_loop(tcp_read_conn([D EXCEPT !.vl.ret = @ + 1], c, stale, ub), stale, ub)

vl_fn_tcp_read(S, stale, ub) == Repopulate(tcp_read_loop(S, stale, ub), "conn_tcp_read_queue")

\* for (i = 0; i < n; i++) f(&queries[i]) over a query array
parse_all(qs, n) == [i \in DOMAIN qs |-> IF i <= n THEN query_parse(qs[i]) ELSE qs[i]]

resolve_all(qs, n) ==
  [i \in DOMAIN qs |->
     IF i <= n /\ qs[i].end_code = rip_ns_r_rip_unknown THEN query_resolve(qs[i]) ELSE qs[i]]

pack_all(qs, n) ==
  [i \in DOMAIN qs |->
     IF i <= n /\ qs[i].end_code >= 0 THEN query_response_pack(qs[i]) ELSE qs[i]]

\* the UDP branch of vl_fn_query_parse: a datagram longer than
\* RIP_NS_PACKETSZ is marked too large and not parsed
udp_parse_all(qs, n) ==
  [i \in DOMAIN qs |->
     IF i > n THEN qs[i]
     ELSE IF PayLen(qs[i].k) > RIP_NS_PACKETSZ THEN [qs[i] EXCEPT !.end_code = -3, !.parsed = -3]
     ELSE query_parse([qs[i] EXCEPT !.request_buffer_len = PayLen(qs[i].k)])]

RECURSIVE parse_loop(_, _)
parse_loop(S, ub) ==
  LET c == fifo_head(S, "query_parse_queue")
      D == Deref(conn_fifo_dequeue_gen(S, "query_parse_queue"), c, ub)
      P == IF CONN_IS_UDP_LISTENER(c)
           THEN [D EXCEPT !.udp[c].queries = udp_parse_all(@, D.udp[c].read_vector_count)]
           ELSE [D EXCEPT !.tcp[c].queries = parse_all(@, D.tcp[c].queries_count)]
  IN IF S.halt # "run" THEN S
     ELSE IF D.halt # "run" \/ c = NULL THEN D
     ELSE parse_loop(conn_fifo_enqueue_gen(P, "query_resolve_queue", c), ub)

\* vl_fn_query_parse that returns after the first conn of its queue
vl_fn_query_parse_first(S, ub) ==
  LET c == fifo_head(S, "query_parse_queue")
      D == Deref(conn_fifo_dequeue_gen(S, "query_parse_queue"), c, ub)
      P == IF CONN_IS_UDP_LISTENER(c)
           THEN [D EXCEPT !.udp[c].queries = udp_parse_all(@, D.udp[c].read_vector_count)]
           ELSE [D EXCEPT !.tcp[c].queries = parse_all(@, D.tcp[c].queries_count)]
  IN IF D.halt # "run" \/ c = NULL THEN D
     ELSE conn_fifo_enqueue_gen(P, "query_resolve_queue", c)

vl_fn_query_parse(S, ub) == parse_loop(S, ub)

RECURSIVE resolve_loop(_, _)
resolve_loop(S, ub) ==
  LET c == fifo_head(S, "query_resolve_queue")
      D == Deref(conn_fifo_dequeue_gen(S, "query_resolve_queue"), c, ub)
      P == IF CONN_IS_UDP_LISTENER(c)
           THEN [D EXCEPT !.udp[c].queries = resolve_all(@, D.udp[c].read_vector_count)]
           ELSE [D EXCEPT !.tcp[c].queries = resolve_all(@, D.tcp[c].queries_count)]
  IN IF S.halt # "run" THEN S
     ELSE IF D.halt # "run" \/ c = NULL THEN D
     ELSE resolve_loop(conn_fifo_enqueue_gen(P, "query_response_pack_queue", c), ub)

vl_fn_query_resolve(S, ub) == resolve_loop(S, ub)

\* the TCP branch of vl_fn_query_response_pack with the timeout left as it
\* was
pack_tcp_keep(S, c) ==
  conn_fifo_enqueue_write(
    [SetState([S EXCEPT !.tcp[c].queries = pack_all(@, S.tcp[c].queries_count)],
              c, "TCP_CONN_ST_WAIT_FOR_WRITE")
       EXCEPT !.tcp[c].attempt = -1],
    "conn_tcp_write_queue", c)

\* the TCP branch of vl_fn_query_response_pack for the dequeued conn: the
\* responses are packed, the state and the send timeout are set and the
\* conn goes to the TCP write queue
pack_tcp(S, c) ==
  conn_fifo_enqueue_write(
    [SetState([S EXCEPT !.tcp[c].queries = pack_all(@, S.tcp[c].queries_count)],
              c, "TCP_CONN_ST_WAIT_FOR_WRITE")
       EXCEPT !.tcp[c].timeout = S.vl.loop_timestamp + tcp_query_send_timeout,
              !.tcp[c].attempt = -1],
    "conn_tcp_write_queue", c)

RECURSIVE pack_loop(_, _)
pack_loop(S, ub) ==
  LET c == fifo_head(S, "query_response_pack_queue")
      D == Deref(conn_fifo_dequeue_gen(S, "query_response_pack_queue"),
                 c, ub)
      P == IF CONN_IS_UDP_LISTENER(c)
           THEN conn_fifo_enqueue_write(
                  [D EXCEPT !.udp[c].queries = pack_all(@, D.udp[c].read_vector_count)],
                  "conn_udp_write_queue", c)
           ELSE pack_tcp(D, c)
  IN IF S.halt # "run" THEN S
     ELSE IF D.halt # "run" \/ c = NULL THEN D
     ELSE pack_loop(P, ub)

vl_fn_query_response_pack(S, ub) == pack_loop(S, ub)

\* history: n more bytes of the response of query q went out on conn c
Wire(S, c, q, n) ==
  LET w == S.gh[c].wire
  IN IF w # << >> /\ w[Len(w)].q = q
     THEN [S EXCEPT !.gh[c].wire[Len(w)].n = @ + n]
     ELSE [S EXCEPT !.gh[c].wire = Append(@, [q |-> q, n |-> n])]

\* the for loop of vl_fn_tcp_write from query i on; `done` as in the source
RECURSIVE tcp_write_queries(_, _, _)
tcp_write_queries(S0, c, i) ==
  IF ~(i < S0.tcp[c].queries_count) THEN [S |-> S0, done |-> FALSE]
  ELSE LET S == [S0 EXCEPT !.vl.ret = @ + 1]
           query == S.tcp[c].queries[i + 1]
           write_len == query.response_buffer_len - S.tcp[c].write_index
           A == IF S.tcp[c].attempt = -1
                THEN [S EXCEPT !.tcp[c].attempt = S.vl.loop_timestamp] ELSE S
           W == sys_write(A, c, write_len)
           ret == W.ret
           S1 == IF ret > 0 THEN Wire(W.S, c, query.q, ret) ELSE W.S
       IN IF ~(query.end_code >= 0) THEN tcp_write_queries(S, c, i + 1)
          ELSE IF ret = write_len
          THEN tcp_write_queries([S1 EXCEPT !.tcp[c].write_index = 0], c, i + 1)
          ELSE IF ret > 0
          THEN [S |-> conn_fifo_enqueue_write(
                        [S1 EXCEPT !.tcp[c].write_index = @ + ret,
                                   !.tcp[c].query_write_index = i],
                        "new_queue", c),
                done |-> TRUE]
          \* "ret == EAGAIN || ret == EWOULDBLOCK" is never true of ret = -1
          ELSE IF ret < 0
          THEN [S |-> SetState([S1 EXCEPT !.tcp[c].queries[i + 1].end_code =
                                             rip_ns_r_rip_tcp_write_err],
                               c, "TCP_CONN_ST_WRITE_ERR"),
                done |-> FALSE]
          ELSE [S |-> SetState([S1 EXCEPT !.tcp[c].queries[i + 1].end_code =
                                             rip_ns_r_rip_tcp_write_close],
                               c, "TCP_CONN_ST_CLOSED_FOR_WRITE"),
                done |-> FALSE]

RECURSIVE tcp_write_loop(_, _)
tcp_write_loop(S, ub) ==
  LET c == fifo_head(S, "conn_tcp_write_queue")
      D == Deref(conn_fifo_dequeue_write(S, "conn_tcp_write_queue"),
                 c, ub)
      W == tcp_write_queries(D, c, D.tcp[c].query_write_index)
  IN IF S.halt # "run" THEN S
     ELSE IF D.halt # "run" \/ c = NULL THEN D
     ELSE tcp_write_loop(IF W.done THEN W.S
                         ELSE conn_fifo_enqueue_gen(W.S, "query_log_queue", c), ub)

\* the requeue sets the tail of the write queue to new_queue.head
vl_fn_tcp_write(S, ub) ==
  LET T == tcp_write_loop(S, ub)
  IN DropLocal(IF T.vl.new_queue.head # NULL /\ T.halt = "run"
               THEN [T EXCEPT !.vl.conn_tcp_write_queue =
                                 [head |-> T.vl.new_queue.head, tail |-> T.vl.new_queue.head]]
               ELSE T)

\* recvmmsg(fd, read_vector, vector_len, MSG_DONTWAIT): the number of
\* datagrams received and what they hold
sys_recvmmsg(S, l, vlen) ==
  LET us == S.kern.usock[l]
      n == Min(vlen, Len(us.rx))
  IN IF us.err
     THEN [ret |-> -1, data |-> << >>,
           S |-> [S EXCEPT !.errno = "EHOSTUNREACH", !.kern.usock[l].err = FALSE]]
     ELSE IF n = 0
     THEN [ret |-> -1, data |-> << >>, S |-> [S EXCEPT !.errno = "EAGAIN"]]
     ELSE [ret |-> n, data |-> SubSeq(us.rx, 1, n),
           S |-> [S EXCEPT !.kern.usock[l].rx = SubSeq(us.rx, n + 1, Len(us.rx))]]

\* what a slot of a write vector holds before it is first populated (the
\* vectors are malloc'ed and not initialised)
NoSlot == [b |-> 0, i |-> 0]

\* sendmmsg(fd, &write_vector[first], vlen, 0): the number of datagrams
\* sent.  The call sends the slots in order and stops at the first one it
\* cannot send.  A slot that was never populated, or that lies behind the
\* vector, holds indeterminate bytes: the datagram goes out with what the
\* memory holds (ub = "go") or the call fails on it with EFAULT.
\* (sent is history: the slots that went out, by what they held.)
sys_sendmmsg(S, l, first, vlen, ub) ==
  LET us == S.kern.usock[l]
      wv == S.udp[l].write_vector
      Held(k) == IF k \in DOMAIN wv THEN wv[k] ELSE NoSlot
      lim == IF us.tx = "short" THEN Min(vlen, 1) ELSE vlen
      j == Cardinality({ k \in 1 .. lim :
                           \A h \in 1 .. k : Held(first + h) # NoSlot \/ ub = "go" })
  IN IF vlen = 0 THEN [ret |-> 0, S |-> S]
     ELSE IF us.tx = "full" THEN [ret |-> -1, S |-> [S EXCEPT !.errno = "EAGAIN"]]
     ELSE IF j = 0 THEN [ret |-> -1, S |-> [S EXCEPT !.errno = "EFAULT"]]
     ELSE [ret |-> j,
           S |-> [S EXCEPT !.kern.usock[l].tx = IF us.tx = "short" THEN "full" ELSE @,
                           !.udp[l].sent = @ \o [h \in 1 .. j |-> Held(first + h)]]]

\* conn_udp_new, and what conn_udp_vectors_reset leaves
\* (batch is history: the number of the batch the listener works on)
conn_udp_new ==
  [read_vector_count |-> 0, write_vector_count |-> 0, write_vector_write_index |-> 0,
   queries |-> [i \in 1 .. udp_conn_vector_len |-> query_init],
   write_vector |-> [i \in 1 .. udp_conn_vector_len |-> NoSlot],
   batch |-> 0, sent |-> << >>]

conn_udp_vectors_reset(u) ==
  [u EXCEPT !.read_vector_count = 0, !.write_vector_count = 0,
            !.write_vector_write_index = 0,
            !.queries = [i \in DOMAIN @ |-> query_reset(@[i])]]

RECURSIVE udp_read_loop(_)
udp_read_loop(S) ==
  LET c == fifo_head(S, "conn_udp_read_queue")
      D == conn_fifo_dequeue_read(S, "conn_udp_read_queue")
      R == sys_recvmmsg([D EXCEPT !.udp[c] = conn_udp_vectors_reset(@)], c, udp_conn_vector_len)
  IN IF S.halt # "run" THEN S
     ELSE IF D.halt # "run" \/ c = NULL THEN D
     ELSE IF R.ret > 0
     THEN udp_read_loop(conn_fifo_enqueue_gen(
            [R.S EXCEPT !.udp[c].read_vector_count = R.ret,
                        !.vl.ret = @ + R.ret,
                        !.udp[c].batch = @ + 1,
                        !.udp[c].queries = [i \in DOMAIN @ |->
                                              IF i <= R.ret THEN [@[i] EXCEPT !.k = R.data[i]]
                                              ELSE @[i]]],
            "query_parse_queue", c))
     ELSE IF IsEAGAIN(R.S.errno)
     THEN udp_read_loop([R.S EXCEPT !.mem[c].waiting_for_read = 1])
     \* the conn goes back into the queue that is being drained
     ELSE udp_read_loop(conn_fifo_enqueue_read(R.S, "conn_udp_read_queue", c))

\* new_queue is never filled in vl_fn_udp_read
vl_fn_udp_read(S) == Repopulate(udp_read_loop(S), "conn_udp_read_queue")

\* "Populate write vector from queries": the response of query i goes into
\* slot write_vector_count, which counts on from the value passed in.  (No
\* run populates a slot behind the vector: fewer datagrams arrive than a
\* vector has slots.)
RECURSIVE udp_populate(_, _, _)
udp_populate(u, i, write_vector_count) ==
  IF i > u.read_vector_count THEN [u |-> u, count |-> write_vector_count]
  ELSE IF u.queries[i].end_code > -1
  THEN udp_populate([u EXCEPT !.write_vector =
                        IF write_vector_count + 1 \in DOMAIN @
                        THEN [@ EXCEPT ![write_vector_count + 1] = [b |-> u.batch, i |-> i]]
                        ELSE @],
                    i + 1, write_vector_count + 1)
  ELSE udp_populate(u, i + 1, write_vector_count)

\* the local write_vector_count is not reset between conns
RECURSIVE udp_write_loop(_, _, _)
udp_write_loop(S, write_vector_count, ub) ==
  LET c == fifo_head(S, "conn_udp_write_queue")
      D == conn_fifo_dequeue_write(S, "conn_udp_write_queue")
      P == udp_populate(D.udp[c], 1, write_vector_count)
      n == P.count
      M == sys_sendmmsg([D EXCEPT !.udp[c] = [P.u EXCEPT !.write_vector_count = n]],
                        c, P.u.write_vector_write_index, n, ub)
      W == [ret |-> M.ret, S |-> [M.S EXCEPT !.vl.ret = M.ret]]
  IN IF S.halt # "run" THEN S
     ELSE IF D.halt # "run" \/ c = NULL THEN D
     ELSE IF W.ret = n
     THEN udp_write_loop(conn_fifo_enqueue_gen(W.S, "query_log_queue", c), n, ub)
     ELSE IF W.ret < 0
     THEN IF IsEAGAIN(W.S.errno)
          THEN udp_write_loop([W.S EXCEPT !.mem[c].waiting_for_write = 1], n, ub)
          ELSE udp_write_loop(conn_fifo_enqueue_write(W.S, "new_queue", c), n, ub)
     ELSE udp_write_loop(
            conn_fifo_enqueue_write(
              [W.S EXCEPT !.udp[c].write_vector_write_index = @ + W.ret,
                          !.udp[c].write_vector_count = @ - W.ret],
              "new_queue", c), n, ub)

vl_fn_udp_write(S, ub) == Repopulate(udp_write_loop(S, 0, ub), "conn_udp_write_queue")

\* data_len of vl_fn_query_log: the bytes the queries of the batch took
RECURSIVE data_len_of(_, _)
data_len_of(qs, n) ==
  IF n = 0 THEN 0 ELSE data_len_of(qs, n - 1) + qs[n].request_buffer_len + 2

\* history: the queries of the batch, as query_log() writes them
Logged(S, c) ==
  [S EXCEPT !.gh[c].logged =
     @ \o [i \in 1 .. S.tcp[c].queries_count |->
             [q |-> S.tcp[c].queries[i].q, end_code |-> S.tcp[c].queries[i].end_code,
              len |-> S.tcp[c].queries[i].response_buffer_len,
              parsed |-> S.tcp[c].queries[i].parsed,
              resolved |-> S.tcp[c].queries[i].resolved]]]

\* the TCP branch of the while loop of vl_fn_query_log
query_log_tcp(S0, c) ==
  LET S == Logged(S0, c)
      t == S.tcp[c]
      data_len == data_len_of(t.queries, t.queries_count)
      data_extra == t.read_buffer_len - data_len
      ts == S.vl.loop_timestamp
      M == IF SzGtZero(data_extra)
           THEN [SetState(S, c, "TCP_CONN_ST_WAIT_FOR_QUERY_DATA") EXCEPT
                   !.tcp[c].timeout = ts + tcp_query_recv_timeout,
                   !.tcp[c].event = ts]
           ELSE [SetState(S, c, "TCP_CONN_ST_WAIT_FOR_QUERY") EXCEPT
                   !.tcp[c].timeout = ts + tcp_keepalive]
  IN IF t.state \in {"TCP_CONN_ST_CLOSED_FOR_WRITE", "TCP_CONN_ST_WRITE_ERR"}
     THEN conn_fifo_enqueue_release(S, "conn_tcp_release_queue", c)
     \* memmove of a length that wrapped below zero runs off the heap
     ELSE IF data_extra < 0 THEN Stop(S, "crashed")
     ELSE conn_fifo_enqueue_read(
            [M EXCEPT !.tcp[c].read_buffer = DropBytes(t.read_buffer, data_len),
                      !.tcp[c].read_buffer_len = data_extra],
            "conn_tcp_read_queue", c)

RECURSIVE query_log_loop(_, _)
query_log_loop(S, ub) ==
  LET c == fifo_head(S, "query_log_queue")
      D == Deref(conn_fifo_dequeue_gen(S, "query_log_queue"), c, ub)
  IN IF S.halt # "run" THEN S
     ELSE IF D.halt # "run" \/ c = NULL THEN D
     ELSE IF CONN_IS_UDP_LISTENER(c)
     THEN query_log_loop(conn_fifo_enqueue_read(D, "conn_udp_read_queue", c), ub)
     ELSE IF CONN_IS_TCP_CONN(c)
     THEN query_log_loop(query_log_tcp(D, c), ub)
     ELSE query_log_loop(D, ub)

vl_fn_query_log(S, ub) == query_log_loop(S, ub)

\* HASH_ITER from the oldest entry; the walk stops at the first entry that
\* has not timed out
RECURSIVE tcp_conn_timeouts(_, _)
tcp_conn_timeouts(S, i) ==
  IF i > Len(S.vl.conn_tcp_lru_cache) THEN S
  ELSE LET c == S.vl.conn_tcp_lru_cache[i]
       IN IF S.tcp[c].timeout < S.vl.loop_timestamp
          THEN tcp_conn_timeouts(conn_fifo_enqueue_release(S, "conn_tcp_release_queue", c),
                                 i + 1)
          ELSE S

vl_fn_tcp_conn_timeouts(S) == tcp_conn_timeouts(S, 1)

\* free(conn): freeing twice is undefined; glibc aborts or goes on
conn_release(S, c, ub) ==
  IF ~S.mem[c].alloc /\ ub = "crash" THEN Stop(S, "crashed")
  ELSE [S EXCEPT !.mem[c].alloc = FALSE]

\* the body of the while loop of vl_fn_tcp_conn_release
tcp_conn_release_conn(S, c, ub) ==
  LET S1 == LRU_CACHE_DEL(Deref(S, c, ub), c, ub)
      S2 == IF S1.mem[c].fd >= 0 THEN [sys_close(S1, c) EXCEPT !.mem[c].fd = -1] ELSE S1
      S3 == conn_fifo_remove_from_read_queue(S2, "conn_tcp_read_queue", c)
      S4 == conn_fifo_remove_from_write_queue(S3, "conn_tcp_write_queue", c)
      S5 == conn_release(S4, c, ub)
  IN IF S5.halt # "run" THEN S5
     ELSE [S5 EXCEPT !.vl.conns_tcp_active = @ - 1]

RECURSIVE tcp_conn_release_loop(_, _)
tcp_conn_release_loop(S, ub) ==
  LET c == fifo_head(S, "conn_tcp_release_queue")
      D == conn_fifo_dequeue_release(S, "conn_tcp_release_queue")
  IN IF S.halt # "run" THEN S
     ELSE IF D.halt # "run" \/ c = NULL THEN D
     ELSE tcp_conn_release_loop(tcp_conn_release_conn(D, c, ub), ub)

QueueNames ==
  {"conn_udp_read_queue", "conn_udp_write_queue", "conn_tcp_accept_conns_queue",
   "conn_tcp_read_queue", "conn_tcp_write_queue", "conn_tcp_release_queue",
   "query_parse_queue", "query_resolve_queue", "query_response_pack_queue",
   "query_log_queue", "new_queue"}

Handles == {"read_q_handle", "write_q_handle", "gen_q_handle"}

\* some pointer of the shard holds address a
Referenced(S, a) ==
  \/ \E qn \in QueueNames : S.vl[qn].head = a \/ S.vl[qn].tail = a
  \/ \E b \in Addr \ {a} : \E h \in Handles : S.mem[b][h] = a

\* Freed memory that no pointer refers to cannot be read again: what it
\* holds is left out of the state.
Scrub(S) ==
  LET dead == { a \in Heap : ~S.mem[a].alloc /\ ~Referenced(S, a) }
  IN [S EXCEPT !.mem = [a \in Addr |-> IF a \in dead THEN conn_unused ELSE @[a]],
               !.tcp = [a \in Heap |-> IF a \in dead THEN conn_tcp_new ELSE @[a]],
               !.gh = [a \in Heap |-> IF a \in dead THEN [wire |-> << >>, logged |-> << >>]
                                       ELSE @[a]]]

vl_fn_tcp_conn_release(S, ub) == Scrub(Scrub(tcp_conn_release_loop(S, ub)))

(* ------------------------------- Init ---------------------------------- *)

\* an EPOLLIN and/or EPOLLOUT edge for UDP listener c
uep_raise(K, c, in, out) ==
  IF \E i \in 1 .. Len(K.ep_udp) : K.ep_udp[i].c = c
  THEN [K EXCEPT !.ep_udp = [i \in DOMAIN @ |->
                               IF @[i].c = c
                               THEN [c |-> c, in |-> @[i].in \/ in, out |-> @[i].out \/ out]
                               ELSE @[i]]]
  ELSE [K EXCEPT !.ep_udp = Append(@, [c |-> c, in |-> in, out |-> out])]

\* vl_new: the vectorloop_t object before the listeners are registered
vl_new ==
  [q \in QueueNames |-> EmptyQueue] @@
  [conn_tcp_lru_cache |-> << >>, conn_tcp_id_base |-> 0, conns_tcp_active |-> 0,
   loop_timestamp |-> 0, seen |-> {}, visits |-> {}, revisit |-> FALSE, ret |-> 0]

kern_new ==
  [sock |-> [a \in Heap |-> sock_none],
   backlog |-> [l \in TcpListeners |-> 0],
   usock |-> [l \in UdpListeners |-> [rx |-> << >>, tx |-> "free", err |-> FALSE]],
   ep_tcp |-> << >>, ep_udp |-> << >>,
   arrivals |-> 0, dgrams |-> 0, stalls |-> 0]

\* conn_listener_provision, registration with epoll (a UDP socket is
\* writable at once) and the enqueue, for one listener
register_listener(S, l) ==
  LET S1 == [S EXCEPT !.mem[l] = conn_new(l)]
  IN IF CONN_IS_UDP_LISTENER(l)
     THEN conn_fifo_enqueue_read([S1 EXCEPT !.kern = uep_raise(@, l, FALSE, TRUE)],
                                 "conn_udp_read_queue", l)
     ELSE conn_fifo_enqueue_read(S1, "conn_tcp_accept_conns_queue", l)

\* vl_register_listeners: IPv4 then IPv6, UDP then TCP
vl_register_listeners(S, c) ==
  LET U == IF c.udp_enable THEN register_listener(register_listener(S, 1), 2) ELSE S
  IN IF c.tcp_enable THEN register_listener(register_listener(U, 3), 4) ELSE U

Blank ==
  [mem |-> [a \in Addr |-> conn_unused],
   tcp |-> [a \in Heap |-> conn_tcp_new],
   udp |-> [l \in UdpListeners |-> conn_udp_new],
   vl |-> vl_new, kern |-> kern_new,
   gh |-> [a \in Heap |-> [wire |-> << >>, logged |-> << >>]],
   errno |-> "none", halt |-> "run", fatal |-> FALSE]

\* The runs explored.  Each names the listeners that are enabled and what
\* the environment does in it: connections that arrive, frames a client
\* sends and the messages in them, where a client may cut a frame in two,
\* how far the clock runs, how often a send buffer stalls, and whether
\* clients close or reset connections.
CfgUdp ==
  [udp_enable |-> TRUE, tcp_enable |-> FALSE, arrivals |-> 0, frames |-> 0,
   kinds |-> {}, cuts |-> {}, ticks |-> 0, stalls |-> MaxStalls, faults |-> FALSE,
   tcp_conns_per_vl_max |-> tcp_conns_per_vl_max]

CfgSolo ==
  [udp_enable |-> FALSE, tcp_enable |-> TRUE, arrivals |-> 1, frames |-> SoloFrames,
   kinds |-> FrameKinds, cuts |-> {0, 1, 3}, ticks |-> MaxTime, stalls |-> MaxStalls,
   faults |-> TRUE, tcp_conns_per_vl_max |-> tcp_conns_per_vl_max]

CfgPipe ==
  [udp_enable |-> FALSE, tcp_enable |-> TRUE, arrivals |-> 1, frames |-> PipeFrames,
   kinds |-> {"ok"}, cuts |-> {0}, ticks |-> 0, stalls |-> MaxStalls, faults |-> FALSE,
   tcp_conns_per_vl_max |-> tcp_conns_per_vl_max]

CfgPair ==
  [udp_enable |-> FALSE, tcp_enable |-> TRUE, arrivals |-> PairArrivals,
   frames |-> PairFrames, kinds |-> {"ok"}, cuts |-> {0}, ticks |-> MaxTime,
   stalls |-> 0, faults |-> FALSE,
   tcp_conns_per_vl_max |-> tcp_conns_per_vl_max]

CfgIds ==
  [udp_enable |-> FALSE, tcp_enable |-> TRUE, arrivals |-> IdsArrivals, frames |-> 0,
   kinds |-> {}, cuts |-> {}, ticks |-> 0, stalls |-> 0, faults |-> FALSE,
   tcp_conns_per_vl_max |-> tcp_conns_per_vl_max]

\* connections side by side whose send buffers run short, within the limit
\* of connections of the shard
CfgStall ==
  [udp_enable |-> FALSE, tcp_enable |-> TRUE, arrivals |-> PairArrivals,
   frames |-> PairFrames, kinds |-> {"ok"}, cuts |-> {0}, ticks |-> 0,
   stalls |-> PairStalls, faults |-> FALSE, tcp_conns_per_vl_max |-> PairArrivals]

Configs == {CfgUdp, CfgSolo, CfgPipe, CfgPair, CfgIds, CfgStall}

(* ------------- channels, resource worker, query-log worker ------------- *)

\* a channel message (channel_bss_msg_t); NoMsg stands for "no message"
NoMsg == [id |-> 0, op |-> "none", p |-> NULL, result |-> 0]

channel_bss_msg_create(id, op, p) == [id |-> id, op |-> op, p |-> p, result |-> 0]

NoElements == [k \in 0 .. (CHANNEL_BSS_QUEUE_LEN - 1) |-> NoMsg]

\* one channel_bss_t as main() initialises it: two element arrays and two
\* queue states, and the queue of either direction is set up over the
\* element array of the bss side
\* (history: sent is the last message enqueued in each direction, and
\* send_failed tells that an enqueue found its queue full)
channel_new ==
  [qbsse |-> [bss |-> NoElements, vl |-> NoElements],
   bss   |-> [array |-> "bss", read_index |-> 0, write_index |-> 0],
   vl    |-> [array |-> "bss", read_index |-> 0, write_index |-> 0],
   sent  |-> [bss |-> NoMsg, vl |-> NoMsg],
   send_failed |-> FALSE]

\* the bounded single-producer single-consumer queue under a channel: a ring
\* over the element array that holds one element less than its length
queue_bss_enqueue(ch, side, msg) ==
  LET q == ch[side]
      w == (q.write_index + 1) % CHANNEL_BSS_QUEUE_LEN
  IN IF w # q.read_index
     THEN [ret |-> 1,
           ch  |-> [ch EXCEPT !.qbsse[q.array][q.write_index] = msg,
                              ![side].write_index = w,
                              !.sent[side] = msg]]
     ELSE [ret |-> 0, ch |-> [ch EXCEPT !.send_failed = TRUE]]

queue_bss_dequeue(ch, side) ==
  LET q == ch[side]
  IN IF q.read_index # q.write_index
     THEN [ret |-> 1, msg |-> ch.qbsse[q.array][q.read_index],
           ch  |-> [ch EXCEPT ![side].read_index = (q.read_index + 1) % CHANNEL_BSS_QUEUE_LEN]]
     ELSE [ret |-> 0, msg |-> NoMsg, ch |-> ch]

channel_bss_send(ch, msg) == queue_bss_enqueue(ch, "bss", msg)

channel_bss_recv(ch) == queue_bss_dequeue(ch, "bss")

channel_bssvl_send(ch, msg) == queue_bss_enqueue(ch, "vl", msg)

channel_bssvl_recv(ch) == queue_bss_dequeue(ch, "vl")

\* the two log slabs of a shard; buf names the active one
query_log_new == [buf |-> "a_buf", buf_len |-> 0, a_buf_len |-> 0, b_buf_len |-> 0]

\* query_log_rotate that empties the active slab and keeps it active
query_log_rotate_stay(ql) ==
  IF ql.buf = "a_buf" THEN [ql EXCEPT !.a_buf_len = 0, !.buf_len = 0]
  ELSE [ql EXCEPT !.b_buf_len = 0, !.buf_len = 0]

query_log_rotate(ql) ==
  IF ql.buf = "a_buf"
  THEN [ql EXCEPT !.a_buf_len = ql.buf_len, !.buf = "b_buf", !.buf_len = 0, !.b_buf_len = 0]
  ELSE [ql EXCEPT !.b_buf_len = ql.buf_len, !.buf = "a_buf", !.buf_len = 0, !.a_buf_len = 0]

\* query_log() into the active slab as vl_fn_query_log calls it for one
\* query: the entry is added when the slab has room, else dropped
query_log_entry(ql) ==
  IF query_log_buffer_size - ql.buf_len < QUERY_LOG_BUF_MIN_SPACE THEN ql
  ELSE [ql EXCEPT !.buf_len = ql.buf_len + EntryLen]

\* what a shard shares with the workers: its two channels and its log slabs.
\* vectorloop_t has no member for a resource; resource1 is the reference to
\* resource 1 that the shard holds, and nothing assigns it.
vl_shared_new ==
  [resource_channel |-> channel_new, query_log_channel |-> channel_new,
   query_log |-> query_log_new, resource1 |-> NULL]

\* vl_fn_channel_messages on the shared part V of a shard: at most one
\* message of each channel is handled in a call
vl_fn_channel_messages(V) ==
  LET R  == channel_bss_recv(V.resource_channel)
      V1 == [V EXCEPT !.resource_channel = R.ch]
      A  == IF R.ret = 0 THEN [V |-> V1, fatal |-> FALSE, ret |-> 0]
            ELSE IF R.msg.op = "CH_OP_RES_SET_RESOURCE1"
            THEN [V |-> [V1 EXCEPT !.resource_channel =
                           channel_bssvl_send(R.ch, [R.msg EXCEPT !.result = 1]).ch],
                  fatal |-> FALSE, ret |-> 1]
            ELSE IF R.msg.op = "CH_OP_RES_SET_RESOURCE2"
            THEN [V |-> V1, fatal |-> FALSE, ret |-> 0]
            ELSE [V |-> V1, fatal |-> TRUE, ret |-> 0]
      Q  == channel_bss_recv(A.V.query_log_channel)
      V2 == [A.V EXCEPT !.query_log_channel = Q.ch]
  IN IF Q.ret = 0 THEN A
     ELSE IF Q.msg.op = "CH_OP_QUERY_LOG_FLIP"
     THEN [V |-> [V2 EXCEPT
                    !.query_log = query_log_rotate(V2.query_log),
                    !.query_log_channel =
                       channel_bssvl_send(Q.ch, [Q.msg EXCEPT !.p = V2.query_log.buf,
                                                 !.result = V2.query_log.buf_len]).ch],
           fatal |-> A.fatal, ret |-> A.ret + 1]
     ELSE [V |-> V2, fatal |-> TRUE, ret |-> A.ret]

Shards == 1 .. NumShards

\* the artifacts the resource worker loads in a run, by allocation
Artifacts == 1 .. MaxUpdates

\* the locals of resource_loop; heap tells for every artifact whether it has
\* been loaded and whether it has been freed.  acks (the shard and the
\* pointer of every acknowledgment received) and succ (the artifact that
\* replaced a freed one) are history.
res_new ==
  [state |-> "CHECK_RESOURCE", current_resource |-> NULL, incoming_resource |-> NULL,
   vl_notifications |-> [i \in Shards |-> FALSE], channel_msg_id_base |-> 0,
   heap |-> [a \in Artifacts |-> "unused"], acks |-> {}, succ |-> [a \in Artifacts |-> NULL],
   vectorloop_update_wait_time |-> 0, waited |-> 0]

\* the locals of query_log_loop: where it stands, the shard it polls, the
\* slab and length a shard handed over, and the log file
qlw_new ==
  [at |-> "top", i |-> 1, buf |-> NULL, buf_len |-> 0, data_written |-> 0,
   current_file_fd |-> -1, current_file_size |-> 0, channel_msg_id_base |-> 0]

(* --------------------------- application log --------------------------- *)

\* app_log_msg_id_t of a message that brings its own text
APP_LOG_MSG_CUSTOM == 0

\* a message of an application log channel (channel_log_msg_t): log_msg is
\* NULL or the text of the message (1); NoLogMsg stands for "no message"
NoLogMsg == [log_msg_id |-> 0, log_msg |-> NULL, exit |-> FALSE]

channel_log_msg_create(log_msg_id, log_msg, exit) ==
  [log_msg_id |-> log_msg_id, log_msg |-> log_msg, exit |-> exit]

\* one channel_log_t as main() initialises it: a ring over its own element
\* array that holds one element less than its length
channel_log_new ==
  [qbsse |-> [k \in 0 .. (CHANNEL_LOG_QUEUE_LEN - 1) |-> NoLogMsg],
   read_index |-> 0, write_index |-> 0]

\* channel_log_send on channel i of the application log A: the enqueue of
\* the ring, which returns 0 and does nothing else when the ring is full
channel_log_send(A, i, msg) ==
  LET ch == A.ch[i]
      w  == (ch.write_index + 1) % CHANNEL_LOG_QUEUE_LEN
  IN IF w # ch.read_index
     THEN [ret |-> 1, A |-> [A EXCEPT !.ch[i].qbsse[ch.write_index] = msg,
                                      !.ch[i].write_index = w]]
     ELSE [ret |-> 0, A |-> A]

channel_log_recv(A, i) ==
  LET ch == A.ch[i]
  IN IF ch.read_index # ch.write_index
     THEN [ret |-> 1, msg |-> ch.qbsse[ch.read_index],
           A   |-> [A EXCEPT !.ch[i].read_index = (ch.read_index + 1) % CHANNEL_LOG_QUEUE_LEN]]
     ELSE [ret |-> 0, msg |-> NoLogMsg, A |-> A]

\* the channels main() sets up (one for every shard, one for the resource
\* worker, one for the query-log worker), the locals of log_app_loop, the
\* counter app_log_write_error, and how the process ended; open_wait tells
\* that log_open_time lies in the future.  History: sent and dropped count
\* the sends of the shards and those of them that found the ring full,
\* unwritten the messages the worker received and could not write, and
\* fatal_recv tells that the worker has received a message with exit set.
alog_new ==
  [ch |-> [i \in 1 .. (NumShards + 2) |-> channel_log_new],
   log_fd |-> -1, open_wait |-> FALSE, exit_by_msg |-> FALSE,
   app_log_write_error |-> 0, exited |-> "run",
   sent |-> 0, dropped |-> 0, unwritten |-> 0, fatal_recv |-> FALSE]

\* one pass of the for loop of log_app_loop from channel i on: at most one
\* message of the channel of every shard is received; exit is looked at
\* only while the log file is open
RECURSIVE log_app_collect(_, _, _)
log_app_collect(A, i, msg_count) ==
  IF i > NumShards THEN [A |-> A, msg_count |-> msg_count]
  ELSE LET M == channel_log_recv(A, i)
       IN IF M.ret # 0
          THEN log_app_collect([M.A EXCEPT !.exit_by_msg = @ \/ (A.log_fd > -1 /\ M.msg.exit),
                                           !.fatal_recv = @ \/ M.msg.exit],
                               i + 1, msg_count + 1)
          ELSE log_app_collect(M.A, i + 1, msg_count)

\* one iteration of the while loop of log_app_loop.  opened, elapsed and
\* written tell whether open() succeeds, whether log_open_time has passed
\* and whether writev() writes the whole batch.  The cleanup loop releases
\* messages[msg_count], a slot no message of the batch was stored in, once
\* for every message: the slot holds whatever was there, and ub tells
\* whether free() survives it.  (The counter app_log_open_error is left out.)
log_app_loop(A, opened, elapsed, written, ub) ==
  LET O == IF A.log_fd < 0 /\ (~A.open_wait \/ elapsed)
           THEN IF opened THEN [A EXCEPT !.log_fd = 1, !.open_wait = FALSE]
                ELSE [A EXCEPT !.open_wait = TRUE]
           ELSE A
      C == log_app_collect(O, 1, 0)
      W == IF C.A.log_fd > -1
           THEN IF written THEN C.A
                ELSE [C.A EXCEPT !.app_log_write_error = @ + C.msg_count,
                                 !.unwritten = @ + C.msg_count,
                                 !.log_fd = -1, !.open_wait = FALSE]
           ELSE [C.A EXCEPT !.app_log_write_error = @ + C.msg_count,
                            !.unwritten = @ + C.msg_count]
  IN IF C.msg_count = 0 THEN C.A
     ELSE IF ub = "crash" THEN [W EXCEPT !.exited = "crashed"]
     ELSE IF W.exit_by_msg THEN [W EXCEPT !.exited = "exit"]
     ELSE W

(* ---------------------- the records of query_resolve ------------------- *)

\* the static records of query_resolve, in the order it sets them up; the
\* first two take their name from the query, the others from strdup
Records == << "example_com_rr_A", "example_com_rr_NS",
              "example_com_rr_NS_A", "example_com_rr_NS_AAAA" >>

\* what the name of a record points to: nothing, a string of strdup, or
\* the query_label buffer of generation gen of shard `shard`
NoName == [kind |-> "NULL", shard |-> 0, gen |-> 0]

\* the records (rdata NULL or set, and name), the generation of
\* the query_label buffer every shard has now, and where the thread of
\* every shard stands with its query.  History: w and r of a record are the
\* shards that wrote and read it; w and r of label[i] are the shards that
\* wrote and read a query_label buffer of shard i.
rr_new ==
  [rec   |-> [k \in 1 .. Len(Records) |-> [rdata |-> NULL, name |-> NoName, w |-> {}, r |-> {}]],
   label |-> [i \in Shards |-> [gen |-> 0, w |-> {}, r |-> {}]],
   th    |-> [i \in Shards |-> [at |-> "parse", k |-> 1, queries |-> 0]],
   halt  |-> "run"]

\* query_parse_request_rr_question of shard i: the name of the question is
\* written to the query_label buffer of the query
rr_parse(R, i) ==
  [R EXCEPT !.label[i].w = @ \cup {i},
            !.th[i] = [at |-> "test", k |-> 1, queries |-> @.queries + 1]]

\* where query_resolve goes on after record k
rr_after(R, i) ==
  IF R.th[i].k < Len(Records) THEN [R EXCEPT !.th[i].at = "test", !.th[i].k = @ + 1]
  ELSE [R EXCEPT !.th[i].at = "pack"]

\* `if (record.rdata == NULL)` of query_resolve in shard i
rr_test(R, i) ==
  LET k == R.th[i].k
      T == [R EXCEPT !.rec[k].r = @ \cup {i}]
  IN IF T.rec[k].rdata = NULL THEN [T EXCEPT !.th[i].at = "init"] ELSE rr_after(T, i)

\* the body of that if: name and rdata of the record are stored
rr_init(R, i) ==
  LET k == R.th[i].k
  IN rr_after([R EXCEPT !.rec[k].name = IF k <= 2
                                         THEN [kind |-> "query_label", shard |-> i,
                                               gen |-> R.label[i].gen]
                                         ELSE [NoName EXCEPT !.kind = "strdup"],
                        !.rec[k].rdata = 1,
                        !.rec[k].w = @ \cup {i}], i)

\* query_pack_rr(NULL, rr, ...) of shard i for the records from k on:
\* rip_ns_name_put reads the bytes rr->name points to; a buffer that has
\* been freed is read all the same (ub: the stale bytes are there, or the
\* read faults)
RECURSIVE rr_pack(_, _, _, _)
rr_pack(R, i, k, ub) ==
  IF k > Len(Records) THEN [R EXCEPT !.th[i].at = "parse"]
  ELSE LET n == R.rec[k].name
           T == [R EXCEPT !.rec[k].r = @ \cup {i}]
       IN IF n.kind # "query_label" THEN rr_pack(T, i, k + 1, ub)
          ELSE IF n.gen # T.label[n.shard].gen /\ ub = "crash" THEN [T EXCEPT !.halt = "crashed"]
          ELSE rr_pack([T EXCEPT !.label[n.shard].r = @ \cup {i}], i, k + 1, ub)

\* query_clean of the query of shard i (its connection is released): the
\* query_label buffer is freed, and the next query has a new one
query_clean(R, i) == [R EXCEPT !.label[i].gen = @ + 1]

\* no call of a function of the query code is under way
NoCall == [fn |-> "none"]

\* the program after construction, in a run of configuration cfg
ProgramStart ==
  /\ pc = "timestamp"
  /\ now = 0
  /\ LET S == vl_register_listeners(Blank, cfg)
     IN /\ mem = S.mem /\ tcp = S.tcp /\ udp = S.udp /\ vl = S.vl /\ kern = S.kern
        /\ gh = S.gh /\ errno = S.errno /\ halt = S.halt /\ app_log_fatal = S.fatal
  /\ vls = [i \in Shards |-> vl_shared_new]
  /\ res = res_new
  /\ qlw = qlw_new
  /\ alog = alog_new
  /\ rr = rr_new

InitProgram == cfg \in Configs /\ ProgramStart

Init == qt = NoCall /\ InitProgram

(* ----------------------- the idle backoff of vl_run -------------------- *)

\* the settings loop_slowdown_one, _two and _three (microseconds 1-10000)
Slowdowns ==
  [loop_slowdown_one : {1, 5}, loop_slowdown_two : {50, 100}, loop_slowdown_three : {100, 10000}]

\* a uint32_t from its two halves; INCREMENT of one; whether it is less
\* than a number below 65536
U32(hi, lo) == [hi |-> hi, lo |-> lo]
U32Inc(x) ==
  IF x.lo < UINT16_MAX THEN U32(x.hi, x.lo + 1)
  ELSE IF x.hi < UINT16_MAX THEN U32(x.hi + 1, 0) ELSE U32(0, 0)
U32Less(x, n) == x.hi = 0 /\ x.lo < n

\* the end of an iteration of vl_run whose stages returned ret in sum:
\* the idle counter and the time slept (0 when usleep is not called)
idle_backoff_le(v, ret) ==
  LET c == U32Inc(v.idle_count)
  IN IF ret = 0
     THEN [v EXCEPT !.idle_count = c,
                    !.usleep = IF U32Less(c, 9) THEN v.cfg.loop_slowdown_one
                               ELSE IF U32Less(c, 17) THEN v.cfg.loop_slowdown_two
                               ELSE v.cfg.loop_slowdown_three]
     ELSE [v EXCEPT !.idle_count = U32(0, 0), !.usleep = 0]

idle_backoff(v, ret) ==
  LET c == U32Inc(v.idle_count)
  IN IF ret = 0
     THEN [v EXCEPT !.idle_count = c,
                    !.usleep = IF U32Less(c, 8) THEN v.cfg.loop_slowdown_one
                               ELSE IF U32Less(c, 16) THEN v.cfg.loop_slowdown_two
                               ELSE v.cfg.loop_slowdown_three]
     ELSE [v EXCEPT !.idle_count = U32(0, 0), !.usleep = 0]

(* ------------------------ the loop of vl_run --------------------------- *)

\* the stages whose return values vl_run adds up in its local ret
Counted ==
  {"channel_messages", "epoll", "udp_read", "tcp_accept_conns", "tcp_read",
   "udp_write", "tcp_write"}

\* The locals of vl_run while stage p returns r: `int ret = 0` at the top
\* of the loop body, `ret += ...` for the stages that are counted, and the
\* idle backoff after the last stage.  (work is history: a counted stage of
\* this iteration had something to do; n counts the iterations.)  A run
\* that does not follow the locals has qt = NoCall.
vl_run_locals(q, p, r, w) ==
  IF q.fn # "vl_run" THEN q
  ELSE IF p = "timestamp" THEN [q EXCEPT !.ret = 0, !.work = FALSE, !.usleep = 0]
  ELSE LET a == IF p \in Counted THEN [q EXCEPT !.ret = @ + r, !.work = @ \/ w] ELSE q
       IN IF p = "tcp_conn_release" THEN [idle_backoff(a, a.ret) EXCEPT !.n = @ + 1] ELSE a

\* what stage p had to do when it leaves T: events, datagrams, accepted
\* sockets, or a connection or listener to read from or to write to
StageWork(p, T) ==
  CASE p = "epoll" -> kern.ep_udp # << >> \/ kern.ep_tcp # << >>
    [] p = "udp_read" -> \E l \in UdpListeners : T.udp[l].batch # udp[l].batch
    [] p = "tcp_accept_conns" -> \E l \in TcpListeners : T.kern.backlog[l] # kern.backlog[l]
    [] p \in {"tcp_read", "udp_write", "tcp_write"} -> T.vl.seen # {}
    [] OTHER -> FALSE

Stage(p, nxt, T) ==
  /\ pc = p /\ halt = "run"
  /\ (qt.fn = "vl_run" /\ p = "timestamp") => qt.n < MaxRuns
  /\ Install(T)
  /\ pc' = nxt
  /\ qt' = vl_run_locals(qt, p, T.vl.ret, StageWork(p, T))
  /\ UNCHANGED << now, cfg, vls, res, qlw, alog, rr >>

\* utl_clock_gettime_rt_fatal(&vl->loop_timestamp) at the top of the loop
VlTimestamp == Stage("timestamp", "channel_messages", [State EXCEPT !.vl.loop_timestamp = now])

\* the shard of this loop is the first of the shards
VlChannelMessages ==
  LET R == vl_fn_channel_messages(vls[1])
  IN /\ pc = "channel_messages" /\ halt = "run"
     /\ Install([State EXCEPT !.fatal = @ \/ R.fatal])
     /\ pc' = "epoll"
     /\ vls' = [vls EXCEPT ![1] = R.V]
     /\ qt' = vl_run_locals(qt, "channel_messages", R.ret, R.ret > 0)
     /\ UNCHANGED << now, cfg, res, qlw, alog, rr >>

VlEpoll == Stage("epoll", "udp_read", vl_fn_epoll(State))

VlUdpRead == Stage("udp_read", "tcp_accept_conns", vl_fn_udp_read(State))

VlTcpAcceptConns == Stage("tcp_accept_conns", "tcp_read", vl_fn_tcp_accept_conns(State))

VlTcpRead ==
  \E stale \in StaleBytes, ub \in UbChoices :
    Stage("tcp_read", "query_parse", vl_fn_tcp_read(State, stale, ub))

VlQueryParse == \E ub \in UbChoices : Stage("query_parse", "query_resolve", vl_fn_query_parse(State, ub))

VlQueryResolve ==
  \E ub \in UbChoices : Stage("query_resolve", "query_response_pack", vl_fn_query_resolve(State, ub))

VlQueryResponsePack ==
  \E ub \in UbChoices : Stage("query_response_pack", "udp_write", vl_fn_query_response_pack(State, ub))

VlUdpWrite == \E ub \in UbChoices : Stage("udp_write", "tcp_write", vl_fn_udp_write(State, ub))

VlTcpWrite == \E ub \in UbChoices : Stage("tcp_write", "query_log", vl_fn_tcp_write(State, ub))

VlQueryLog == \E ub \in UbChoices : Stage("query_log", "tcp_conn_timeouts", vl_fn_query_log(State, ub))

VlTcpConnTimeouts == Stage("tcp_conn_timeouts", "tcp_conn_release", vl_fn_tcp_conn_timeouts(State))

VlTcpConnRelease ==
  \E ub \in UbChoices : Stage("tcp_conn_release", "timestamp", vl_fn_tcp_conn_release(State, ub))

(* --------------------------- the environment --------------------------- *)

\* An event of the environment is taken at the points of the loop where a
\* stage that reads what the event changes runs next; it commutes with the
\* stages in between.
Env(points, K) ==
  /\ halt = "run"
  /\ pc \in points
  /\ kern' = K
  /\ UNCHANGED << pc, now, cfg, halt, errno, mem, tcp, udp, vl, gh, app_log_fatal, vls, res, qlw, alog, rr, qt >>

\* a client connects to TCP listener l; no more connections are offered
\* than there is memory for connection objects
ClientConnect(l) ==
  /\ cfg.tcp_enable
  /\ kern.arrivals < cfg.arrivals
  /\ Cardinality({ a \in Heap : mem[a].alloc }) + kern.backlog[3] + kern.backlog[4] < MaxConnObjs
  /\ Env({"timestamp", "tcp_accept_conns"}, ep_raise([kern EXCEPT !.backlog[l] = @ + 1, !.arrivals = @ + 1], l))

\* the client of connection c sends: the first `cut` bytes of a new frame
\* of kind k (the whole frame if cut = 0), or the rest of the frame it began
ClientSend(c, k, cut) ==
  LET sk == kern.sock[c]
      frame == FrameCells(k, sk.sent + 1)
      whole == cut = 0 \/ cut >= CellsLen(frame)
      bytes == IF sk.pend # << >> THEN sk.pend
               ELSE IF whole THEN frame ELSE TakeBytes(frame, cut)
  IN /\ sk.st = "open"
     /\ sk.pend = << >> => (sk.sent < cfg.frames /\ k \in cfg.kinds /\ cut \in cfg.cuts)
     /\ sk.pend # << >> => (k = "ok" /\ cut = 0)
     /\ Env({"timestamp", "tcp_read"}, ep_raise([kern EXCEPT
                        !.sock[c].rx = CatBytes(@, bytes),
                        !.sock[c].sent = IF sk.pend = << >> THEN @ + 1 ELSE @,
                        !.sock[c].pend = IF sk.pend # << >> \/ whole THEN << >>
                                         ELSE DropBytes(frame, cut)], c))

\* the client closes its side of connection c
ClientClose(c) ==
  /\ cfg.faults
  /\ kern.sock[c].st = "open"
  /\ Env({"timestamp", "tcp_read"}, ep_raise([kern EXCEPT !.sock[c].st = "fin", !.sock[c].pend = << >>], c))

\* connection c is reset; what was received and not read is discarded
ClientReset(c) ==
  /\ cfg.faults
  /\ kern.sock[c].st \in {"open", "fin"}
  /\ Env({"timestamp", "tcp_read", "tcp_write"}, ep_raise([kern EXCEPT !.sock[c].st = "rst", !.sock[c].rx = << >>,
                                !.sock[c].pend = << >>], c))

\* the send buffer of connection c runs short (v = "late": room for one
\* more write and a byte, "short": room for one more byte) or full
TxStall(c, v) ==
  /\ kern.sock[c].st \in {"open", "fin"}
  /\ kern.sock[c].tx = "free"
  /\ kern.stalls < cfg.stalls
  /\ Env({"tcp_write"}, [kern EXCEPT !.sock[c].tx = v, !.stalls = @ + 1])

\* the send buffer of connection c drains
TxDrain(c) ==
  /\ kern.sock[c].st \in {"open", "fin"}
  /\ kern.sock[c].tx # "free"
  /\ Env({"tcp_write"}, [kern EXCEPT !.sock[c].tx = "free"])

\* a datagram holding message k arrives on UDP listener l
DgramArrive(l, k) ==
  /\ cfg.udp_enable
  /\ kern.dgrams < MaxDgrams
  /\ Env({"timestamp", "udp_read"}, uep_raise([kern EXCEPT !.usock[l].rx = Append(@, k), !.dgrams = @ + 1],
                    l, TRUE, FALSE))

\* the send buffer of UDP listener l runs short or full
UdpTxStall(l, v) ==
  /\ cfg.udp_enable
  /\ kern.usock[l].tx = "free"
  /\ kern.stalls < cfg.stalls
  /\ Env({"udp_write"}, [kern EXCEPT !.usock[l].tx = v, !.stalls = @ + 1])

\* the send buffer of UDP listener l drains: EPOLLOUT
UdpTxDrain(l) ==
  /\ cfg.udp_enable
  /\ kern.usock[l].tx # "free"
  /\ Env({"timestamp", "udp_write"}, uep_raise([kern EXCEPT !.usock[l].tx = "free"], l, FALSE, TRUE))

\* an asynchronous error is pending on the socket of UDP listener l
UdpError(l) ==
  /\ cfg.udp_enable
  /\ ~kern.usock[l].err
  /\ kern.stalls < cfg.stalls
  /\ Env({"timestamp", "udp_read"}, uep_raise([kern EXCEPT !.usock[l].err = TRUE, !.stalls = @ + 1], l, TRUE, FALSE))

\* the clock is read at the top of the loop only
Tick ==
  /\ halt = "run"
  /\ pc = "timestamp"
  /\ now < cfg.ticks
  /\ now' = now + 1
  /\ UNCHANGED << pc, cfg, halt, errno, mem, tcp, udp, vl, kern, gh, app_log_fatal, vls, res, qlw, alog, rr, qt >>

\* the application log worker takes the fatal message and calls exit()
ProcessExit ==
  /\ halt = "run"
  /\ app_log_fatal
  /\ halt' = "exited"
  /\ UNCHANGED << pc, now, cfg, errno, mem, tcp, udp, vl, kern, gh, app_log_fatal, vls, res, qlw, alog, rr, qt >>

Next ==
  \/ VlTimestamp
  \/ VlChannelMessages
  \/ VlEpoll
  \/ VlUdpRead
  \/ VlTcpAcceptConns
  \/ VlTcpRead
  \/ VlQueryParse
  \/ VlQueryResolve
  \/ VlQueryResponsePack
  \/ VlUdpWrite
  \/ VlTcpWrite
  \/ VlQueryLog
  \/ VlTcpConnTimeouts
  \/ VlTcpConnRelease
  \/ \E l \in TcpListeners : ClientConnect(l)
  \/ \E c \in Heap, k \in FrameKinds, cut \in {0, 1, 3} : ClientSend(c, k, cut)
  \/ \E c \in Heap : ClientClose(c)
  \/ \E c \in Heap : ClientReset(c)
  \/ \E c \in Heap, v \in {"late", "short", "full"} : TxStall(c, v)
  \/ \E c \in Heap : TxDrain(c)
  \/ \E l \in UdpListeners, k \in {"ok", "short"} : DgramArrive(l, k)
  \/ \E l \in UdpListeners, v \in {"short", "full"} : UdpTxStall(l, v)
  \/ \E l \in UdpListeners : UdpTxDrain(l)
  \/ \E l \in UdpListeners : UdpError(l)
  \/ Tick
  \/ ProcessExit

Spec == Init /\ [][Next]_vars

(* -------------------------- the resource worker ------------------------ *)

Vl == << pc, now, cfg, halt, errno, mem, tcp, udp, vl, kern, gh >>

\* vl_fn_channel_messages as shard i runs it while the workers run
ShardChannelMessages(i) ==
  LET R == vl_fn_channel_messages(vls[i])
  IN /\ vls' = [vls EXCEPT ![i] = R.V]
     /\ app_log_fatal' = (app_log_fatal \/ R.fatal)
     /\ UNCHANGED << Vl, res, qlw, alog, rr, qt >>

\* the for loop of CHECK_RESOURCE: a message with the new artifact p to
\* every shard from i on
\* the for loop of CHECK_RESOURCE that sends the message of a shard a second
\* time while the first one is still in the channel
RECURSIVE res_notify_twice(_, _, _, _)
res_notify_twice(V, R, p, i) ==
  IF i > NumShards THEN [vls |-> V, res |-> R]
  ELSE LET id  == R.channel_msg_id_base + 1
           msg == channel_bss_msg_create(id, "CH_OP_RES_SET_RESOURCE1", p)
           ch1 == channel_bss_send(V[i].resource_channel, msg).ch
       IN res_notify_twice([V EXCEPT ![i].resource_channel = channel_bss_send(ch1, msg).ch],
                           [R EXCEPT !.vl_notifications[i] = FALSE, !.channel_msg_id_base = id],
                           p, i + 1)

RECURSIVE res_notify(_, _, _, _)
res_notify(V, R, p, i) ==
  IF i > NumShards THEN [vls |-> V, res |-> R]
  ELSE LET id  == R.channel_msg_id_base + 1
           msg == channel_bss_msg_create(id, "CH_OP_RES_SET_RESOURCE1", p)
       IN res_notify([V EXCEPT ![i].resource_channel = channel_bss_send(@, msg).ch],
                     [R EXCEPT !.vl_notifications[i] = FALSE, !.channel_msg_id_base = id],
                     p, i + 1)

\* state CHECK_RESOURCE for a check_load that returns ret; a new artifact
\* is the next one not yet loaded, and a failed load is reported on the
\* application log channel of the worker.  (History: waited counts the
\* polls since the messages went out, up to TenSeconds.)
res_check(V, R, A, ret) ==
  IF ret = 1
  THEN LET a == CHOOSE x \in Artifacts :
                  R.heap[x] = "unused" /\ \A y \in Artifacts : R.heap[y] = "unused" => x <= y
           N == res_notify(V, [R EXCEPT !.incoming_resource = a, !.heap[a] = "live"], a, 1)
       IN [vls |-> N.vls, alog |-> A,
           res |-> [N.res EXCEPT !.vectorloop_update_wait_time = 0, !.waited = 0,
                                 !.state = "WAIT_FOR_RESOURCE_UPDATE"]]
  ELSE IF ret = 0
  THEN [vls |-> V, alog |-> A, res |-> [R EXCEPT !.state = "GET_NEXT_RESOURCE"]]
  ELSE [vls |-> V, res |-> [R EXCEPT !.state = "GET_NEXT_RESOURCE"],
        alog |-> channel_log_send(A, NumShards + 1, channel_log_msg_create(0, 1, FALSE)).A]

ResCheckResource ==
  /\ res.state = "CHECK_RESOURCE"
  /\ \E ret \in {1, 0, -1} :
       /\ ret = 1 => \E a \in Artifacts : res.heap[a] = "unused"
       /\ LET N == res_check(vls, res, alog, ret)
          IN vls' = N.vls /\ res' = N.res /\ alog' = N.alog
  /\ UNCHANGED << Vl, app_log_fatal, qlw, rr, qt >>

\* resource_vls_notified that goes on to the next shard when an
\* acknowledgment is missing
RECURSIVE resource_vls_notified_skip(_, _, _)
resource_vls_notified_skip(V, R, i) ==
  IF i > NumShards THEN [ret |-> TRUE, vls |-> V, res |-> R]
  ELSE IF R.vl_notifications[i] = FALSE
  THEN LET M == channel_bssvl_recv(V[i].resource_channel)
       IN IF M.ret = 1
          THEN resource_vls_notified_skip([V EXCEPT ![i].resource_channel = M.ch],
                                          [R EXCEPT !.vl_notifications[i] = TRUE,
                                                    !.acks = @ \cup {<< i, M.msg.p >>}],
                                          i + 1)
          ELSE resource_vls_notified_skip(V, R, i + 1)
  ELSE resource_vls_notified_skip(V, R, i + 1)

\* resource_vls_notified from shard i on: the acknowledgments that are in
\* are received, and the first one that is missing ends the call
RECURSIVE resource_vls_notified(_, _, _)
resource_vls_notified(V, R, i) ==
  IF i > NumShards THEN [ret |-> TRUE, vls |-> V, res |-> R]
  ELSE IF R.vl_notifications[i] = FALSE
  THEN LET M == channel_bssvl_recv(V[i].resource_channel)
       IN IF M.ret = 1
          THEN resource_vls_notified([V EXCEPT ![i].resource_channel = M.ch],
                                     [R EXCEPT !.vl_notifications[i] = TRUE,
                                               !.acks = @ \cup {<< i, M.msg.p >>}],
                                     i + 1)
          ELSE [ret |-> FALSE, vls |-> V, res |-> R]
  ELSE resource_vls_notified(V, R, i + 1)

\* resource_release_raw_file: free(buf) unless buf is NULL
resource_release_raw_file(R, buf) ==
  IF buf = NULL THEN R
  ELSE [R EXCEPT !.heap[buf] = "freed", !.succ[buf] = R.incoming_resource]

\* state WAIT_FOR_RESOURCE_UPDATE: when an acknowledgment is missing, the
\* fatal message goes out if vectorloop_update_wait_time is over its limit,
\* and the worker sleeps and stays in the state; nothing changes
\* vectorloop_update_wait_time here
res_wait(V, R, A) ==
  LET N == resource_vls_notified(V, R, 1)
  IN IF N.ret
     THEN [vls |-> N.vls, alog |-> A,
           res |-> [resource_release_raw_file(N.res, N.res.current_resource) EXCEPT
                      !.current_resource = N.res.incoming_resource,
                      !.incoming_resource = NULL,
                      !.state = "GET_NEXT_RESOURCE"]]
     ELSE [vls |-> N.vls,
           res |-> [N.res EXCEPT !.waited = Min(@ + 1, TenSeconds)],
           alog |-> IF N.res.vectorloop_update_wait_time > VL_RESOURCE_NOTIFY_WAIT_TIME_MAX
                    THEN channel_log_send(A, NumShards + 1,
                                          channel_log_msg_create(0, 1, TRUE)).A
                    ELSE A]

ResWaitForResourceUpdate ==
  /\ res.state = "WAIT_FOR_RESOURCE_UPDATE"
  /\ LET N == res_wait(vls, res, alog)
     IN vls' = N.vls /\ res' = N.res /\ alog' = N.alog
  /\ UNCHANGED << Vl, app_log_fatal, qlw, rr, qt >>

ResGetNextResource ==
  /\ res.state = "GET_NEXT_RESOURCE"
  /\ res' = [res EXCEPT !.state = "CHECK_RESOURCE"]
  /\ UNCHANGED << Vl, app_log_fatal, vls, qlw, alog, rr, qt >>

(* ------------------------- the query-log worker ------------------------ *)

\* vl_fn_query_log of shard i adds the entry of one query to its active slab
ShardQueryLog(i) ==
  /\ vls' = [vls EXCEPT ![i].query_log = query_log_entry(@)]
  /\ UNCHANGED << Vl, app_log_fatal, res, qlw, alog, rr, qt >>

\* top of the while loop: the log file is opened when it is not open, and
\* the round over the shards starts
QlTop ==
  /\ qlw.at = "top"
  /\ \E opened \in BOOLEAN :
       IF qlw.current_file_fd < 0 /\ ~opened
       THEN qlw' = qlw
       ELSE qlw' = [qlw EXCEPT !.current_file_fd = 1,
                               !.current_file_size = IF qlw.current_file_fd < 0 THEN 0 ELSE @,
                               !.data_written = 0, !.i = 1, !.at = "send"]
  /\ UNCHANGED << Vl, app_log_fatal, vls, res, alog, rr, qt >>

\* the flip message to shard i
QlSend ==
  /\ qlw.at = "send"
  /\ qlw.channel_msg_id_base < MaxFlips
  /\ LET id  == qlw.channel_msg_id_base + 1
         msg == channel_bss_msg_create(id, "CH_OP_QUERY_LOG_FLIP", NULL)
     IN /\ vls' = [vls EXCEPT ![qlw.i].query_log_channel = channel_bss_send(@, msg).ch]
        /\ qlw' = [qlw EXCEPT !.channel_msg_id_base = id, !.at = "wait"]
  /\ UNCHANGED << Vl, app_log_fatal, res, alog, rr, qt >>

\* what follows the write of a slab: the sizes are added up, the file is
\* replaced when it is large enough, and the loop goes on with the next
\* shard (a failed open ends the round)
ql_account(Q, opened) ==
  LET Q1 == [Q EXCEPT !.current_file_size = @ + Q.buf_len, !.data_written = @ + Q.buf_len]
      nx == IF Q.i < NumShards THEN [Q1 EXCEPT !.i = @ + 1, !.at = "send"]
            ELSE [Q1 EXCEPT !.at = "top"]
  IN IF Q1.current_file_size >= query_log_rotate_size
     THEN IF opened THEN [nx EXCEPT !.current_file_size = 0]
          ELSE [Q1 EXCEPT !.current_file_size = 0, !.current_file_fd = -1, !.at = "top"]
     ELSE nx

\* the wait for the reply of shard i; an empty slab is not written
QlWait ==
  /\ qlw.at = "wait"
  /\ LET M == channel_bssvl_recv(vls[qlw.i].query_log_channel)
     IN IF M.ret = 1
        THEN /\ vls' = [vls EXCEPT ![qlw.i].query_log_channel = M.ch]
             /\ \E opened \in BOOLEAN :
                  LET Q == [qlw EXCEPT !.buf = M.msg.p, !.buf_len = M.msg.result]
                  IN qlw' = IF Q.buf_len # 0 THEN [Q EXCEPT !.at = "write"]
                            ELSE ql_account(Q, opened)
        ELSE UNCHANGED << vls, qlw >>
  /\ UNCHANGED << Vl, app_log_fatal, res, alog, rr, qt >>

\* utl_writeall of the slab: it is read from the time the reply is in until
\* this step; a failed write closes the file and ends the round
QlWrite ==
  /\ qlw.at = "write"
  /\ \E written \in BOOLEAN, opened \in BOOLEAN :
       qlw' = IF written THEN ql_account(qlw, opened)
              ELSE [qlw EXCEPT !.current_file_fd = -1, !.at = "top"]
  /\ UNCHANGED << Vl, app_log_fatal, vls, res, alog, rr, qt >>

InitBss == Init /\ cfg = CfgUdp

NextBss ==
  \/ ResCheckResource
  \/ ResWaitForResourceUpdate
  \/ ResGetNextResource
  \/ QlTop
  \/ QlSend
  \/ QlWait
  \/ QlWrite
  \/ \E i \in Shards : ShardChannelMessages(i)
  \/ \E i \in Shards : ShardQueryLog(i)

SpecBss == InitBss /\ [][NextBss]_vars

(* ----------------------- the application log worker -------------------- *)

\* a stage of shard i reports an error it goes on after (vl_fn_udp_read)
VlLogError(i) ==
  /\ alog.exited = "run"
  /\ alog.sent < MaxLogMsgs
  /\ LET R == channel_log_send(alog, i, channel_log_msg_create(APP_LOG_MSG_CUSTOM, 1, FALSE))
     IN alog' = [R.A EXCEPT !.sent = @ + 1, !.dropped = @ + (1 - R.ret)]
  /\ UNCHANGED << Vl, app_log_fatal, vls, res, qlw, rr, qt >>

\* shard i reports an error the process is to exit on (vl_run that cannot
\* provision a listener)
VlLogFatal(i) ==
  /\ alog.exited = "run"
  /\ alog.sent < MaxLogMsgs
  /\ LET R == channel_log_send(alog, i, channel_log_msg_create(APP_LOG_MSG_CUSTOM, 1, TRUE))
     IN alog' = [R.A EXCEPT !.sent = @ + 1, !.dropped = @ + (1 - R.ret)]
  /\ UNCHANGED << Vl, app_log_fatal, vls, res, qlw, rr, qt >>

LogAppLoop ==
  /\ alog.exited = "run"
  /\ \E opened \in BOOLEAN, elapsed \in BOOLEAN, written \in BOOLEAN, ub \in {"go", "crash"} :
       alog' = log_app_loop(alog, opened, elapsed, written, ub)
  /\ UNCHANGED << Vl, app_log_fatal, vls, res, qlw, rr, qt >>

NextAppLog ==
  \/ \E i \in Shards : VlLogError(i)
  \/ \E i \in Shards : VlLogFatal(i)
  \/ LogAppLoop

SpecAppLog == InitBss /\ [][NextAppLog]_vars

(* ------------------ the shards that call query_resolve ----------------- *)

RrParse(i) ==
  /\ rr.halt = "run"
  /\ rr.th[i].at = "parse"
  /\ rr.th[i].queries < MaxQueries
  /\ rr' = rr_parse(rr, i)
  /\ UNCHANGED << Vl, app_log_fatal, vls, res, qlw, alog, qt >>

RrTest(i) ==
  /\ rr.halt = "run"
  /\ rr.th[i].at = "test"
  /\ rr' = rr_test(rr, i)
  /\ UNCHANGED << Vl, app_log_fatal, vls, res, qlw, alog, qt >>

RrInit(i) ==
  /\ rr.halt = "run"
  /\ rr.th[i].at = "init"
  /\ rr' = rr_init(rr, i)
  /\ UNCHANGED << Vl, app_log_fatal, vls, res, qlw, alog, qt >>

RrPack(i) ==
  /\ rr.halt = "run"
  /\ rr.th[i].at = "pack"
  /\ \E ub \in {"go", "crash"} : rr' = rr_pack(rr, i, 1, ub)
  /\ UNCHANGED << Vl, app_log_fatal, vls, res, qlw, alog, qt >>

\* the connection of the query of shard i is released between two queries
RrClean(i) ==
  /\ rr.halt = "run"
  /\ rr.th[i].at = "parse"
  /\ rr.label[i].gen < MaxCleans
  /\ rr' = query_clean(rr, i)
  /\ UNCHANGED << Vl, app_log_fatal, vls, res, qlw, alog, qt >>

NextResolve ==
  \/ \E i \in Shards : RrParse(i)
  \/ \E i \in Shards : RrTest(i)
  \/ \E i \in Shards : RrInit(i)
  \/ \E i \in Shards : RrPack(i)
  \/ \E i \in Shards : RrClean(i)

SpecResolve == InitBss /\ [][NextResolve]_vars

(* ------------------- runs of the idle backoff alone -------------------- *)

\* a shard that is new, or that has been idle for a long time
InitIdle ==
  /\ InitProgram /\ cfg = CfgUdp
  /\ qt \in [fn : {"vl_run"}, at : {"stages"}, cfg : Slowdowns,
             idle_count : {U32(0, 0), U32(UINT16_MAX, UINT16_MAX - 10)},
             ret : {0}, usleep : {0}, n : {0}]

\* the stages of an iteration: the sum of what they return is 0 when none
\* of them had anything to do
IdleStages ==
  /\ qt.fn = "vl_run" /\ qt.at = "stages" /\ qt.n < MaxIdle
  /\ \E ret \in {0, 1, 2} : qt' = [qt EXCEPT !.at = "backoff", !.ret = ret, !.n = @ + 1]
  /\ UNCHANGED << Vl, app_log_fatal, vls, res, qlw, alog, rr >>

\* the idle backoff at the end of the iteration
IdleBackoff ==
  /\ qt.fn = "vl_run" /\ qt.at = "backoff"
  /\ qt' = [idle_backoff(qt, qt.ret) EXCEPT !.at = "stages"]
  /\ UNCHANGED << Vl, app_log_fatal, vls, res, qlw, alog, rr >>

NextIdle == IdleStages \/ IdleBackoff

SpecIdle == InitIdle /\ [][NextIdle]_vars

(* ------------------- the EDNS client subnet option --------------------- *)

\* bitwise and of two bytes
RECURSIVE BitAnd(_, _, _)
BitAnd(a, b, bits) ==
  IF bits = 0 THEN 0
  ELSE 2 * BitAnd(a \div 2, b \div 2, bits - 1) + (IF a % 2 = 1 /\ b % 2 = 1 THEN 1 ELSE 0)

\* RIP_NS_GET16: the number two bytes hold in network order
RIP_NS_GET16(hi, lo) == hi * 256 + lo

\* a 2-exponent
RECURSIVE Pow2(_)
Pow2(n) == IF n = 0 THEN 1 ELSE 2 * Pow2(n - 1)

\* the object of a client subnet option before it is first parsed
cs_new ==
  [edns_cs_raw_buf |-> << >>, edns_cs_raw_buf_len |-> 0, edns_cs_valid |-> FALSE,
   family |-> 0, source_mask |-> 0, scope_mask |-> 0, ip |-> << >>]

\* byte i of the memory that starts at edns_cs_raw_buf
CsByte(cs, i) == IF i + 1 \in DOMAIN cs.edns_cs_raw_buf THEN cs.edns_cs_raw_buf[i + 1] ELSE 0

\* query_parse_edns_ext_cs on the client subnet object cs: the return value
\* and the object it leaves (bytes_to_copy, r, addr_len, comp and shift are
\* uint8_t)
query_parse_edns_ext_cs(cs) ==
  LET buf_len       == cs.edns_cs_raw_buf_len
      invalid       == [cs EXCEPT !.edns_cs_valid = FALSE]
      family        == RIP_NS_GET16(CsByte(cs, 0), CsByte(cs, 1))
      source_mask   == CsByte(cs, 2)
      scope_mask    == CsByte(cs, 3)
      bytes_to_copy == (buf_len - 4) % 256
      copied        == [invalid EXCEPT !.ip = [i \in 1..bytes_to_copy |-> CsByte(cs, 3 + i)]]
      r             == source_mask % 8
      addr_len      == IF r > 0 THEN source_mask \div 8 + 1 ELSE source_mask \div 8
      comp          == IF r > 0 THEN CsByte(cs, 4 + addr_len - 1) ELSE 0
      shift         == (255 * Pow2(8 - r)) % 256
  IN IF buf_len < 4 THEN [ret |-> -1, cs |-> invalid]
     ELSE IF family = 1 /\ (source_mask > 32 \/ scope_mask # 0 \/ bytes_to_copy > RIP_NS_INADDRSZ)
     THEN [ret |-> -2, cs |-> invalid]
     ELSE IF family = 2 /\ (source_mask > 128 \/ scope_mask # 0 \/ bytes_to_copy > RIP_NS_IN6ADDRSZ)
     THEN [ret |-> -3, cs |-> invalid]
     ELSE IF family # 1 /\ family # 2 THEN [ret |-> -4, cs |-> invalid]
     ELSE IF addr_len # bytes_to_copy THEN [ret |-> -5, cs |-> copied]
     ELSE IF comp > 0 /\ BitAnd(shift, comp, 8) # comp THEN [ret |-> -6, cs |-> copied]
     ELSE [ret |-> 0,
           cs  |-> [copied EXCEPT !.edns_cs_valid = TRUE, !.family = family,
                                  !.source_mask = source_mask, !.scope_mask = scope_mask]]

\* the options the function is called on: two bytes of family, source
\* mask, scope mask, then the address, whose last byte is `last` and whose
\* other bytes are `fill`
CsOptions ==
  [edns_cs_raw_buf_len : CsLens, family : {<< 0, 0 >>, << 0, 1 >>, << 0, 2 >>, << 1, 1 >>},
   source_mask : CsMasks, scope_mask : {0, 1}, last : {0, 1, 128, 192, 255}, fill : {0, 255}]

\* the bytes of the option o in the request, and what follows them
CsRaw(o) ==
  [i \in 1..(o.edns_cs_raw_buf_len + 17) |->
     IF i = 1 THEN o.family[1] ELSE IF i = 2 THEN o.family[2]
     ELSE IF i = 3 THEN o.source_mask ELSE IF i = 4 THEN o.scope_mask
     ELSE IF i = o.edns_cs_raw_buf_len THEN o.last
     ELSE IF i < o.edns_cs_raw_buf_len THEN o.fill ELSE 0]

InitCs ==
  /\ InitProgram /\ cfg = CfgUdp
  /\ qt \in [fn : {"query_parse_edns_ext_cs"}, at : {"call"}, cs : CsOptions, out : {NoCall}]

\* query_parse_edns_ext hands an option with code 8 to query_parse_edns_ext_cs
CsReturn ==
  /\ qt.fn = "query_parse_edns_ext_cs" /\ qt.at = "call"
  /\ qt' = [qt EXCEPT !.at = "done",
              !.out = query_parse_edns_ext_cs(
                        [cs_new EXCEPT !.edns_cs_raw_buf = CsRaw(qt.cs),
                                       !.edns_cs_raw_buf_len = qt.cs.edns_cs_raw_buf_len])]
  /\ UNCHANGED << Vl, app_log_fatal, vls, res, qlw, alog, rr >>

SpecCs == InitCs /\ [][CsReturn]_vars

(* ----------------------- parsing a request message --------------------- *)

\* the two bytes that hold n in network order
Be16(n) == << (n \div 256) % 256, n % 256 >>

\* concatenation of a sequence of sequences
RECURSIVE Flatten(_)
Flatten(ss) == IF ss = << >> THEN << >> ELSE Head(ss) \o Flatten(Tail(ss))

\* byte at offset i from request_hdr: the message, then what the buffer
\* held before the message was received
ReqByte(q, i) ==
  IF i < 0 THEN 0
  ELSE IF i < Len(q.request) THEN q.request[i + 1]
  ELSE IF i < Len(q.stale) THEN q.stale[i + 1] ELSE 0

\* RIP_NS_GET16 at offset i of the request
Get16(q, i) == RIP_NS_GET16(ReqByte(q, i), ReqByte(q, i + 1))

\* the loop of rip_ns_name_unpack: srcp0 is the read position, dstleft is
\* dstlim - dstp; the name is kept as its sequence of labels
RECURSIVE name_unpack_loop(_, _, _, _, _, _, _, _)
name_unpack_loop(q, eom, src, srcp0, dstleft, checked, len, labels) ==
  LET n    == ReqByte(q, srcp0)
      srcp == srcp0 + 1
      fail == [ret |-> -1, name |-> << >>]
  IN IF n = 0 THEN [ret |-> IF len < 0 THEN srcp - src ELSE len, name |-> labels]
     ELSE IF n \div 64 = 0
     THEN IF n + 1 >= dstleft \/ n >= eom - srcp THEN fail
          ELSE name_unpack_loop(q, eom, src, srcp + n, dstleft - (n + 1), checked + n + 1, len,
                                Append(labels, [i \in 1..n |-> ReqByte(q, srcp + i - 1)]))
     ELSE IF n \div 64 = 3
     THEN IF srcp >= eom THEN fail
          ELSE LET target == (n % 64) * 256 + ReqByte(q, srcp)
               IN IF target >= eom \/ checked + 2 >= eom THEN fail
                  ELSE name_unpack_loop(q, eom, src, target, dstleft, checked + 2,
                                        IF len < 0 THEN srcp - src + 1 ELSE len, labels)
     ELSE fail

\* rip_ns_name_unpack of the name at offset src of the request, whose last
\* byte is said to be at offset eom
rip_ns_name_unpack(q, eom, src, dstsiz) ==
  IF src < 0 \/ src >= eom THEN [ret |-> -1, name |-> << >>]
  ELSE name_unpack_loop(q, eom, src, src, dstsiz, 0, -1, << >>)

\* characters rip_ns_name_ntop quotes: " . ; \ ( ) @ $
Special == {34, 46, 59, 92, 40, 41, 64, 36}

\* what rip_ns_name_ntop writes for one character of a label
NtopChar(c) ==
  IF c \in Special THEN << 92, c >>
  ELSE IF ~(c > 32 /\ c < 127)
  THEN << 92, 48 + (c \div 100), 48 + ((c % 100) \div 10), 48 + (c % 10) >>
  ELSE << c >>

\* labels in printable form, joined by dots
RECURSIVE NtopLabels(_)
NtopLabels(name) ==
  IF name = << >> THEN << >>
  ELSE LET l == Flatten([i \in 1..Len(Head(name)) |-> NtopChar(Head(name)[i])])
       IN IF Tail(name) = << >> THEN l ELSE l \o << 46 >> \o NtopLabels(Tail(name))

\* rip_ns_name_ntop: the printable string of a name and its length, or -1
\* when the string and its terminator do not fit in dstsiz bytes
rip_ns_name_ntop(name, dstsiz) ==
  LET str == IF name = << >> THEN << 46 >> ELSE NtopLabels(name)
  IN IF Len(str) >= dstsiz THEN [ret |-> -1, str |-> << >>]
     ELSE [ret |-> Len(str), str |-> str]

\* rip_rr_name_get
rip_rr_name_get(q, eom, src, dstsiz) ==
  LET u == rip_ns_name_unpack(q, eom, src, 256)
      c == rip_ns_name_ntop(u.name, dstsiz)
  IN IF u.ret < 0 THEN [ret |-> u.ret, str |-> << >>, len |-> 0]
     ELSE IF c.ret < 0 THEN [ret |-> c.ret, str |-> << >>, len |-> 0]
     ELSE [ret |-> u.ret, str |-> c.str, len |-> c.ret]

rip_ns_rr_type_supported(query_type) == query_type \in {rip_ns_t_a}

rip_ns_rr_class_supported(query_class) == query_class = rip_ns_c_in

\* query_parse_request_rr_question: return value and the query it leaves
query_parse_request_rr_question(q) ==
  LET eom    == Len(q.request) - 1
      g      == rip_rr_name_get(q, eom, sizeof_rip_ns_header_t, q.query_label_size)
      ptr    == sizeof_rip_ns_header_t + g.ret
      q1     == [q EXCEPT !.query_label = g.str, !.query_label_len = g.len]
      q2     == [q1 EXCEPT !.query_q_type = Get16(q, ptr)]
      q3     == [q2 EXCEPT !.query_q_class = Get16(q, ptr + 2)]
  IN IF g.ret < 1 THEN [ret |-> -1, q |-> [q EXCEPT !.end_code = rip_ns_r_formerr]]
     ELSE IF ptr + 3 > eom THEN [ret |-> -1, q |-> [q1 EXCEPT !.end_code = rip_ns_r_formerr]]
     ELSE IF ~rip_ns_rr_type_supported(q2.query_q_type)
     THEN [ret |-> -1, q |-> [q2 EXCEPT !.end_code = rip_ns_r_notimpl]]
     ELSE IF ~rip_ns_rr_class_supported(q3.query_q_class)
     THEN [ret |-> -1, q |-> [q3 EXCEPT !.end_code = rip_ns_r_notimpl]]
     ELSE [ret |-> g.ret + 4, q |-> q3]

\* query_parse_edns_ext: the options between offsets buf and eobuf
RECURSIVE query_parse_edns_ext(_, _, _)
query_parse_edns_ext(q, buf, eobuf) ==
  IF ~(buf < eobuf) THEN [ret |-> 0, q |-> q]
  ELSE IF buf + 3 > eobuf THEN [ret |-> -1, q |-> q]
  ELSE LET opt_code == Get16(q, buf)
           opt_len  == Get16(q, buf + 2)
           b        == buf + 4
           c        == query_parse_edns_ext_cs(
                         [q.edns.client_subnet EXCEPT
                            !.edns_cs_raw_buf = [i \in 1..(opt_len + 17) |-> ReqByte(q, b + i - 1)],
                            !.edns_cs_raw_buf_len = opt_len])
           q1       == [q EXCEPT !.edns.client_subnet = [c.cs EXCEPT !.edns_cs_raw_buf = b]]
       IN IF b + opt_len - 1 > eobuf THEN [ret |-> -1, q |-> q]
          ELSE IF opt_code = rip_ns_ext_opt_c_cs
          THEN IF c.ret # 0 THEN [ret |-> -1, q |-> q1]
               ELSE query_parse_edns_ext(q1, b + opt_len, eobuf)
          ELSE query_parse_edns_ext(q, b + opt_len, eobuf)

\* the loop of query_parse_request_rr_additional_edns over the records from
\* offset ptr0 on, and the comparison of rr_count that follows it
RECURSIVE additional_loop(_, _, _, _, _)
additional_loop(q, eom, start, ptr0, rr_count) ==
  LET formerr(x) == [ret |-> -1, q |-> [x EXCEPT !.end_code = rip_ns_r_formerr]]
      after(x, ptr, n) ==
        IF n # Get16(x, 6) THEN formerr(x) ELSE [ret |-> ptr - start, q |-> x]
      u       == rip_ns_name_unpack(q, eom, ptr0, 256)
      ptr     == ptr0 + u.ret
      \* the OPT record
      size    == Get16(q, ptr + 2)
      clamped == IF size < RIP_NS_PACKETSZ THEN RIP_NS_PACKETSZ
                 ELSE IF size > RIP_NS_UDP_MAXMSG THEN RIP_NS_UDP_MAXMSG ELSE size
      version == ReqByte(q, ptr + 4)
      qv      == [q EXCEPT !.edns.edns_raw_buf = ptr0, !.edns.udp_resp_len = clamped,
                           !.edns.version = version]
      qd      == IF ReqByte(q, ptr + 6) >= 128 THEN [qv EXCEPT !.edns.dnssec = TRUE] ELSE qv
      rdata_len == Get16(q, ptr + 8)
      opts    == ptr + 10
      ext     == query_parse_edns_ext(qd, opts, opts + rdata_len - 1)
      qe      == IF rdata_len > 0 THEN ext.q ELSE qd
      \* another record
      skip    == ptr + u.ret + 8
  IN IF ~(ptr0 < eom) THEN after(q, ptr0, rr_count)
     ELSE IF u.ret < 1 THEN formerr(q)
     ELSE IF ptr >= eom \/ ptr + RIP_NS_RRFIXEDSZ - 1 > eom THEN formerr(q)
     ELSE IF u.ret = 1 /\ u.name = << >> /\ Get16(q, ptr) = rip_ns_t_opt
     THEN IF version # 0
          THEN [ret |-> -1,
                q   |-> [qv EXCEPT !.edns.udp_resp_len = 512, !.end_code = rip_ns_r_badvers]]
          ELSE IF rdata_len > 0 /\ (opts >= eom \/ opts + rdata_len - 1 > eom) THEN formerr(qd)
          ELSE IF rdata_len > 0 /\ ext.ret # 0 THEN formerr(ext.q)
          ELSE after([qe EXCEPT !.edns.edns_raw_buf_len = u.ret + RIP_NS_RRFIXEDSZ + rdata_len,
                                !.edns.edns_valid = TRUE], opts, rr_count)
     ELSE IF skip + 1 > eom THEN formerr(q)
     ELSE additional_loop(q, eom, start, skip + 2 + Get16(q, skip), rr_count + 1)

\* query_parse_request_rr_additional_edns: eom is request_hdr +
\* request_buffer_len - 1 with request_hdr a pointer to a 12 byte header
query_parse_request_rr_additional_edns(q, ptr) ==
  LET eom == sizeof_rip_ns_header_t * (Len(q.request) - 1)
  IN IF ptr + RIP_NS_RRFIXEDSZ > eom
     THEN [ret |-> -1, q |-> [q EXCEPT !.end_code = rip_ns_r_formerr]]
     ELSE additional_loop(q, eom, ptr, ptr, 0)

\* query_parse with the response flag looked at before the truncation flag
query_parse_request_qr_first(q0) ==
  LET q       == [q0 EXCEPT !.end_code = -1]
      end(c)  == [q EXCEPT !.end_code = c]
      flags   == ReqByte(q, 2)
      tc      == (flags \div 2) % 2
      opcode  == (flags \div 8) % 16
      qr      == flags \div 128
      qdcount == Get16(q, 4)
      ancount == Get16(q, 6)
      nscount == Get16(q, 8)
      adr_count == Get16(q, 10)
      qn      == query_parse_request_rr_question(q)
  IN IF Len(q.request) < sizeof_rip_ns_header_t THEN end(rip_ns_r_rip_shortheader)
     ELSE IF qr # 0 THEN end(rip_ns_r_formerr)
     ELSE IF tc # 0 THEN end(rip_ns_r_rip_query_tc)
     ELSE IF opcode # rip_ns_o_query THEN end(rip_ns_r_notimpl)
     ELSE IF qdcount # 1
     THEN (IF qdcount = 0 THEN end(rip_ns_r_formerr) ELSE end(rip_ns_r_notimpl))
     ELSE IF ancount # 0 \/ nscount # 0 THEN end(rip_ns_r_formerr)
     ELSE IF qn.ret < 0 THEN qn.q
     ELSE IF adr_count > 0
     THEN query_parse_request_rr_additional_edns(qn.q, sizeof_rip_ns_header_t + qn.ret).q
     ELSE qn.q

\* query_parse on the message in the request buffer of q
query_parse_request(q0) ==
  LET q       == [q0 EXCEPT !.end_code = -1]
      end(c)  == [q EXCEPT !.end_code = c]
      flags   == ReqByte(q, 2)
      tc      == (flags \div 2) % 2
      opcode  == (flags \div 8) % 16
      qr      == flags \div 128
      qdcount == Get16(q, 4)
      ancount == Get16(q, 6)
      nscount == Get16(q, 8)
      adr_count == Get16(q, 10)
      qn      == query_parse_request_rr_question(q)
  IN IF Len(q.request) < sizeof_rip_ns_header_t THEN end(rip_ns_r_rip_shortheader)
     ELSE IF tc # 0 THEN end(rip_ns_r_rip_query_tc)
     ELSE IF opcode # rip_ns_o_query THEN end(rip_ns_r_notimpl)
     ELSE IF qr # 0 THEN end(rip_ns_r_formerr)
     ELSE IF qdcount # 1
     THEN (IF qdcount = 0 THEN end(rip_ns_r_formerr) ELSE end(rip_ns_r_notimpl))
     ELSE IF ancount # 0 \/ nscount # 0 THEN end(rip_ns_r_formerr)
     ELSE IF qn.ret < 0 THEN qn.q
     ELSE IF adr_count > 0
     THEN query_parse_request_rr_additional_edns(qn.q, sizeof_rip_ns_header_t + qn.ret).q
     ELSE qn.q

(* --------------- resolving a request and packing the response ---------- *)

\* query_init: the query object of a UDP listener (protocol 0) or of a TCP
\* connection whose write buffer has tcp_writebuff_size bytes
query_init_msg(protocol, tcp_writebuff_size) ==
  [protocol |-> protocol, request |-> << >>, stale |-> << >>,
   response_buffer_size |-> IF protocol = 0 THEN RIP_NS_UDP_MAXMSG ELSE tcp_writebuff_size,
   response_buffer |-> << >>, response_buffer_len |-> 0,
   query_label |-> << >>, query_label_size |-> RIP_NS_MAXCDNAME + 1, query_label_len |-> 0,
   query_q_type |-> 0, query_q_class |-> 0, end_code |-> -1,
   edns |-> [edns_valid |-> FALSE, edns_raw_buf |-> 0, edns_raw_buf_len |-> 0,
             udp_resp_len |-> 0, version |-> 0, dnssec |-> FALSE, extended_rcode |-> 0,
             client_subnet |-> [cs_new EXCEPT !.edns_cs_raw_buf = 0]],
   answer_section |-> << >>, authority_section |-> << >>, additional_section |-> << >>,
   additional_section_count |-> 0, dnptrs |-> << >>]

\* query_reset: what a query object keeps of the query it served before
query_reset_msg(q) ==
  [q EXCEPT !.request = << >>, !.query_label_len = 0, !.query_q_type = 0, !.query_q_class = 0,
            !.edns.edns_raw_buf_len = 0, !.edns.edns_valid = FALSE,
            !.edns.client_subnet.edns_cs_raw_buf_len = 0,
            !.edns.client_subnet.edns_cs_valid = FALSE,
            !.response_buffer_len = 0, !.dnptrs = << >>,
            !.answer_section = << >>, !.authority_section = << >>,
            !.additional_section = << >>, !.additional_section_count = 0,
            !.end_code = -1]

\* "ns.example.com" as a string and in network format
NsName == << 110, 115, 46, 101, 120, 97, 109, 112, 108, 101, 46, 99, 111, 109 >>
NsNameWire == << 2, 110, 115, 7, 101, 120, 97, 109, 112, 108, 101, 3, 99, 111, 109, 0 >>

\* query_resolve: the four records of every answer; name is the string that
\* the query_label the static records point to holds
query_resolve_msg(q, name) ==
  LET loopback4 == << 127, 0, 0, 1 >>
      loopback6 == [i \in 1..16 |-> IF i = 16 THEN 1 ELSE 0]
      rec(n, t, rd) == [name |-> n, type |-> t, class |-> rip_ns_c_in, ttl |-> 60,
                        rdata_len |-> Len(rd), rdata |-> rd]
  IN [q EXCEPT !.end_code = rip_ns_r_noerror,
               !.answer_section = Append(@, rec(name, rip_ns_t_a, loopback4)),
               !.authority_section = Append(@, rec(name, rip_ns_t_ns, NsNameWire)),
               !.additional_section = @ \o << rec(NsName, rip_ns_t_a, loopback4),
                                              rec(NsName, rip_ns_t_aaaa, loopback6) >>,
               !.additional_section_count = @ + 2]

\* rip_ns_name_pton for strings without quoted characters: the labels
\* between the dots ("." is the root), or -1 for a label of more than 63
\* bytes or a name of more than 255
RECURSIVE PtonLabels(_)
PtonLabels(str) ==
  LET dots == {i \in 1..Len(str) : str[i] = 46}
      d    == CHOOSE i \in dots : \A j \in dots : i <= j
  IN IF dots = {} THEN << str >>
     ELSE << SubSeq(str, 1, d - 1) >> \o PtonLabels(SubSeq(str, d + 1, Len(str)))

rip_ns_name_pton(str) ==
  LET labels == IF str = << 46 >> THEN << >> ELSE PtonLabels(str)
      wire   == Flatten([i \in 1..Len(labels) |-> << Len(labels[i]) >> \o labels[i]])
  IN IF \E i \in 1..Len(labels) : Len(labels[i]) > 63 \/ Len(labels[i]) = 0
     THEN [ret |-> -1, name |-> << >>]
     ELSE IF Len(wire) + 1 > RIP_NS_MAXCDNAME THEN [ret |-> -1, name |-> << >>]
     ELSE [ret |-> 0, name |-> labels]

\* offset of label k of a packed name whose first label is at offset off
LabelOff(lits, off, k) == off + Len(Flatten([j \in 1..(k - 1) |-> << 0 >> \o lits[j]]))

\* rip_dn_find: the offset in the response of an earlier packed name, or of
\* the tail of one, that equals domain; -1 if there is none. dnptrs lists
\* for every saved name its offset, the labels that stand there before a
\* pointer or the root (lits), and the whole name (full)
RECURSIVE rip_dn_find(_, _)
rip_dn_find(domain, dnptrs) ==
  IF dnptrs = << >> THEN -1
  ELSE LET e    == Head(dnptrs)
           hits == {k \in 1..Len(e.lits) :
                      /\ SubSeq(e.full, k, Len(e.full)) = domain
                      /\ LabelOff(e.lits, e.off, k) < 16384}
       IN IF hits # {}
          THEN LabelOff(e.lits, e.off, CHOOSE k \in hits : \A j \in hits : k <= j)
          ELSE rip_dn_find(domain, Tail(dnptrs))

\* the second loop of rip_ns_name_pack: label k of the name all is next,
\* out holds the bytes written at offset off of the response
RECURSIVE name_pack_loop(_, _, _, _, _, _)
name_pack_loop(all, k, out, dstsiz, dnptrs, off) ==
  LET fail   == [ret |-> -1, bytes |-> << >>, dnptrs |-> dnptrs]
      saved  == IF all = << >> \/ (k = 1 /\ rip_dn_find(all, dnptrs) >= 0) THEN dnptrs
                ELSE Append(dnptrs, [off |-> off, lits |-> SubSeq(all, 1, k - 1), full |-> all])
      l      == rip_dn_find(SubSeq(all, k, Len(all)), dnptrs)
  IN IF k > Len(all)
     THEN IF 1 > dstsiz - Len(out) THEN fail
          ELSE [ret |-> Len(out) + 1, bytes |-> Append(out, 0), dnptrs |-> saved]
     ELSE IF l >= 0
     THEN IF dstsiz - Len(out) <= 1 THEN fail
          ELSE [ret |-> Len(out) + 2, bytes |-> out \o << 192 + (l \div 256), l % 256 >>,
                dnptrs |-> saved]
     ELSE IF Len(all[k]) + 1 > dstsiz - Len(out) THEN fail
     ELSE name_pack_loop(all, k + 1, out \o << Len(all[k]) >> \o all[k], dstsiz, dnptrs, off)

\* rip_ns_name_put: a name given as a string, packed at offset off of the
\* response into dstsiz bytes
rip_ns_name_put(str, dstsiz, dnptrs, off) ==
  LET c == rip_ns_name_pton(str)
  IN IF c.ret < 0 THEN [ret |-> c.ret, bytes |-> << >>, dnptrs |-> dnptrs]
     ELSE name_pack_loop(c.name, 1, << >>, dstsiz, dnptrs, off)

\* query_pack_rr at offset off of the response, with buf_len bytes of room
query_pack_rr(r, buf_len, dnptrs, off) ==
  LET n          == rip_ns_name_put(r.name, buf_len, dnptrs, off)
      packed_len == n.ret + RIP_NS_RRFIXEDSZ + r.rdata_len
  IN IF n.ret < 0 THEN [ret |-> -3, bytes |-> << >>, dnptrs |-> n.dnptrs]
     ELSE IF packed_len > buf_len THEN [ret |-> -3, bytes |-> << >>, dnptrs |-> n.dnptrs]
     ELSE [ret |-> packed_len,
           bytes |-> n.bytes \o Be16(r.type) \o Be16(r.class) \o Be16(r.ttl \div 65536) \o
                     Be16(r.ttl) \o Be16(r.rdata_len) \o r.rdata,
           dnptrs |-> n.dnptrs]

\* query_pack_edns: the OPT record of the response with buf_len bytes of
\* room (cs_ip_len, cs_opt_len and r are uint8_t)
query_pack_edns(buf_len, edns) ==
  LET cs        == edns.client_subnet
      r         == cs.source_mask % 8
      cs_ip_len == IF r > 0 THEN cs.source_mask \div 8 + 1 ELSE cs.source_mask \div 8
      cs_opt_len == 4 + cs_ip_len
      opts_len  == IF cs.edns_cs_valid THEN 1 + RIP_NS_RRFIXEDSZ + 4 + cs_opt_len
                   ELSE 1 + RIP_NS_RRFIXEDSZ
      cs_ip     == [i \in 1..cs_ip_len |-> IF i <= Len(cs.ip) THEN cs.ip[i] ELSE 0]
  IN IF ~edns.edns_valid THEN [ret |-> 0, bytes |-> << >>]
     ELSE IF buf_len < opts_len THEN [ret |-> -1, bytes |-> << >>]
     ELSE [ret |-> opts_len,
           bytes |-> << 0 >> \o Be16(rip_ns_t_opt) \o Be16(edns.udp_resp_len) \o
                     << edns.extended_rcode, 0, IF edns.dnssec THEN 128 ELSE 0, 0 >> \o
                     Be16(opts_len - 1 - RIP_NS_RRFIXEDSZ) \o
                     (IF cs.edns_cs_valid
                      THEN Be16(rip_ns_ext_opt_c_cs) \o Be16(cs_opt_len) \o Be16(cs.family) \o
                           << cs.source_mask, cs.scope_mask >> \o cs_ip
                      ELSE << >>)]

\* the three loops of query_response_pack over the sections: st.msg holds
\* the bytes of the response from its header on, st.len is rrs_packed_len
RECURSIVE pack_rrs(_, _, _)
pack_rrs(q, st, rrs) ==
  IF rrs = << >> \/ st.ret < 0 THEN st
  ELSE LET r == query_pack_rr(Head(rrs), (q.response_buffer_size - st.len) % 65536,
                              st.dnptrs, Len(st.msg))
       IN IF r.ret < 0 THEN [st EXCEPT !.ret = -1, !.tc = 1, !.dnptrs = r.dnptrs]
          ELSE pack_rrs(q, [st EXCEPT !.msg = @ \o r.bytes, !.len = @ + r.ret,
                                      !.dnptrs = r.dnptrs], Tail(rrs))

\* what query_response_pack does from the label END on with the length: a
\* TCP response gets rip_ns_put16 of the length in front, taken with 16 bits
pack_end_len_after(q, msg, rrs_packed_len) ==
  IF q.protocol = 1
  THEN [q EXCEPT !.response_buffer = Be16((rrs_packed_len + 2) % 65536) \o msg,
                 !.response_buffer_len = rrs_packed_len + 2]
  ELSE [q EXCEPT !.response_buffer = msg, !.response_buffer_len = rrs_packed_len]

pack_end(q, msg, rrs_packed_len) ==
  IF q.protocol = 1
  THEN [q EXCEPT !.response_buffer = Be16(rrs_packed_len % 65536) \o msg,
                 !.response_buffer_len = rrs_packed_len + 2]
  ELSE [q EXCEPT !.response_buffer = msg, !.response_buffer_len = rrs_packed_len]

\* the sections of query_response_pack in turn; st is the state of the
\* packing (return value, TC bit, message, bytes packed, compression
\* pointers and the counts of the header)
pack_answer(q) ==
  pack_rrs(q, [ret |-> 0, tc |-> 0, msg |-> [i \in 1..sizeof_rip_ns_header_t |-> 0],
               len |-> sizeof_rip_ns_header_t, dnptrs |-> q.dnptrs,
               ancount |-> Len(q.answer_section), nscount |-> 0,
               arcount |-> q.additional_section_count],
           q.answer_section)

pack_authority(q, st) ==
  IF st.ret < 0 THEN st
  ELSE pack_rrs(q, [st EXCEPT !.nscount = Len(q.authority_section)], q.authority_section)

pack_additional(q, st) ==
  IF st.ret < 0 THEN st ELSE pack_rrs(q, st, q.additional_section)

\* the OPT record e that query_pack_edns made is added
pack_opt_put(st, e) ==
  IF st.ret < 0 THEN st
  ELSE IF e.ret < 0 THEN [st EXCEPT !.ret = -1, !.tc = 1]
  ELSE [st EXCEPT !.msg = @ \o e.bytes, !.len = @ + e.ret,
                  !.arcount = IF e.ret > 0 THEN @ + 1 ELSE @]

pack_opt(q, st) ==
  pack_opt_put(st, query_pack_edns((q.response_buffer_size - st.len) % 65536, q.edns))

\* the header is written last, in front of the records
pack_header(q, st, rcode) ==
  << ReqByte(q, 0), ReqByte(q, 1), 128 + 4 + 2 * st.tc + (ReqByte(q, 2) % 2), rcode >> \o
  Be16(0) \o Be16(st.ancount) \o Be16(st.nscount) \o Be16(st.arcount) \o
  SubSeq(st.msg, sizeof_rip_ns_header_t + 1, Len(st.msg))

pack_finish(q, st, rcode) ==
  [ret |-> st.ret,
   q   |-> pack_end([q EXCEPT !.additional_section_count = st.arcount, !.dnptrs = st.dnptrs],
                    pack_header(q, st, rcode), st.len)]

\* query_response_pack: return value and the query it leaves
query_response_pack_msg(q0) ==
  LET q     == IF q0.end_code < 16 THEN q0
               ELSE [q0 EXCEPT !.edns.extended_rcode = (q0.end_code \div 16) % 256]
      rcode == IF q0.end_code < 16 THEN q0.end_code % 16 ELSE 0
  IN pack_finish(q, pack_opt(q, pack_additional(q, pack_authority(q, pack_answer(q)))), rcode)

(* ------------------- the requests that clients send -------------------- *)

\* a name as a client writes it: every label behind its length, then 0
WireName(labels) ==
  Flatten([i \in 1..Len(labels) |-> << Len(labels[i]) >> \o labels[i]]) \o << 0 >>

\* the options of an OPT record, by kind
WireOptions(kind) ==
  IF kind = "cs"
  THEN Be16(8) \o Be16(7) \o Be16(1) \o << 24, 0 >> \o << 192, 0, 2 >>
  ELSE IF kind = "cs_scope"
  THEN Be16(8) \o Be16(7) \o Be16(1) \o << 24, 1 >> \o << 192, 0, 2 >>
  ELSE IF kind = "unknown" THEN Be16(10) \o Be16(2) \o << 1, 2 >>
  ELSE << >>

\* an OPT record; the kind "short" announces 8 bytes of options and has none
WireOpt(o) ==
  << 0 >> \o Be16(41) \o Be16(o.udp) \o << o.extended_rcode, o.version, 128 * o.do, 0 >> \o
  (IF o.rdkind = "short" THEN Be16(8) ELSE Be16(Len(WireOptions(o.rdkind)))) \o
  WireOptions(o.rdkind)

\* a TXT record of the name "x" with two bytes of data
WireOther == << 1, 120, 0 >> \o Be16(16) \o Be16(1) \o << 0, 0, 0, 60 >> \o Be16(2) \o << 1, 65 >>

\* number of records in the additional section of the request d, and the
\* number its header announces
Additional(d) == d.other + (IF d.opt.present THEN 1 ELSE 0)
ArCount(d) == IF d.ar_lie THEN (IF Additional(d) = 0 THEN 1 ELSE 0) ELSE Additional(d)

\* end of the question of d
QuestionEnd(d) == sizeof_rip_ns_header_t + Len(WireName(d.labels)) + 4

\* the bytes of the request d: cut 0 sends all of it, cut -1 the header and
\* the question, another cut that many bytes
WireRequest(d) ==
  LET h    == d.hdr
      full == Be16(4660) \o << 128 * h.qr + 8 * h.opcode + 2 * h.tc + h.rd, 0 >> \o
              Be16(h.qdcount) \o Be16(h.ancount) \o Be16(h.nscount) \o Be16(ArCount(d)) \o
              WireName(d.labels) \o Be16(d.qtype) \o Be16(d.qclass) \o
              (IF d.other = 1 THEN WireOther ELSE << >>) \o
              (IF d.opt.present THEN WireOpt(d.opt) ELSE << >>) \o
              [i \in 1..d.extra |-> 255]
  IN IF d.cut = 0 THEN full
     ELSE IF d.cut = -1 THEN SubSeq(full, 1, QuestionEnd(d))
     ELSE SubSeq(full, 1, Min(d.cut, Len(full)))

\* names that are asked for: the root, a.bc, a name of 233 bytes, and one
\* of 233 bytes that are not printable
NameRoot == << >>
NameAbc == << << 97 >>, << 98, 99 >> >>
NameLong == [i \in 1..4 |-> [j \in 1..57 |-> 96 + i]]
NameBinary == [i \in 1..4 |-> [j \in 1..57 |-> 1]]

NoOpt == [present |-> FALSE, udp |-> 0, extended_rcode |-> 0, version |-> 0, do |-> 0,
          rdkind |-> "none"]

Opts ==
  [present : {TRUE}, udp : {1232}, extended_rcode : {0, 1}, version : {0, 1}, do : {1},
   rdkind : {"none", "cs", "cs_scope", "unknown", "short"}]

GoodHdr == [qr |-> 0, opcode |-> 0, tc |-> 0, rd |-> 1, qdcount |-> 1, ancount |-> 0,
            nscount |-> 0]

\* requests that differ in the header and the question
HeaderRequests ==
  [hdr : [qr : {0, 1}, opcode : {0, 2}, tc : {0, 1}, rd : {1}, qdcount : {0, 1, 2},
          ancount : {0, 1}, nscount : {0, 1}],
   labels : {NameAbc}, qtype : {rip_ns_t_a, rip_ns_t_aaaa}, qclass : {rip_ns_c_in, 3},
   other : {0}, opt : {NoOpt}, ar_lie : {FALSE}, cut : {0} \cup HeaderCuts, extra : {0}]

\* requests with a good header and question that differ in the name and in
\* what follows the question
BodyRequests ==
  [hdr : {GoodHdr}, labels : {NameRoot, NameAbc},
   qtype : {rip_ns_t_a}, qclass : {rip_ns_c_in},
   other : {0, 1}, opt : {NoOpt} \cup Opts, ar_lie : {FALSE, TRUE}, cut : {0},
   extra : {0, ExtraBytes}]
  \cup
  [hdr : {GoodHdr}, labels : {NameLong, NameBinary},
   qtype : {rip_ns_t_a}, qclass : {rip_ns_c_in},
   other : {0}, opt : {NoOpt} \cup Opts, ar_lie : {FALSE}, cut : {0},
   extra : {0, ExtraBytes}]

\* requests for a.bc whose header announces an additional record that is
\* not there
ShortRequests == {d \in BodyRequests : d.labels = NameAbc /\ d.ar_lie /\ Additional(d) = 0}

\* the query objects that receive a request: of a UDP listener or of a TCP
\* connection, new or used before for a request with the DO bit and one
\* that ended with BADVERS
NewQueryObjects ==
  {query_init_msg(0, 0)} \cup {query_init_msg(1, n * (2 + RIP_NS_PACKETSZ)) : n \in TcpSimCounts}

UsedQueryObject ==
  query_reset_msg([query_init_msg(0, 0) EXCEPT !.edns.dnssec = TRUE,
                                               !.edns.extended_rcode = 1,
                                               !.edns.udp_resp_len = 512])

\* what the request buffer held before: nothing, or a request for a.bc with
\* an OPT record
Stales ==
  {WireRequest([hdr |-> GoodHdr, labels |-> NameAbc, qtype |-> 1, qclass |-> 1, other |-> 0,
                opt |-> [present |-> TRUE, udp |-> 1232, extended_rcode |-> x, version |-> 0,
                         do |-> 0, rdkind |-> "none"],
                ar_lie |-> FALSE, cut |-> 0, extra |-> 0]) : x \in {0, 1}}

\* the string in the query_label that the records of query_resolve point
\* to: none before the first query is resolved, else that of the query
\* object that was resolved first
NoRecords == << >>
RecordNames == {NtopLabels(NameLong)}

QueryInput(d, o, st, n) ==
  [fn |-> "query", at |-> "parse", d |-> d, records |-> n,
   q |-> [o EXCEPT !.request = WireRequest(d), !.stale = st]]

QueryInputs ==
  {QueryInput(d, o, << >>, NoRecords) :
     d \in HeaderRequests, o \in {query_init_msg(0, 0), query_init_msg(1, 2 + RIP_NS_PACKETSZ)}}
  \cup
  {QueryInput(d, o, << >>, NoRecords) :
     d \in BodyRequests, o \in NewQueryObjects \cup {UsedQueryObject}}
  \cup
  {QueryInput(d, o, st, NoRecords) : d \in ShortRequests, o \in NewQueryObjects, st \in Stales}
  \cup
  {QueryInput(d, o, << >>, n) :
     d \in {x \in BodyRequests : x.labels = NameAbc /\ x.other = 0 /\ ~x.ar_lie /\ x.extra = 0},
     o \in NewQueryObjects, n \in RecordNames}

InitQuery == InitProgram /\ cfg = CfgUdp /\ qt \in QueryInputs

\* vl_fn_query_parse parses the request of a query
QtParse ==
  /\ qt.fn = "query" /\ qt.at = "parse"
  /\ qt' = [qt EXCEPT !.at = "resolve", !.q = query_parse_request(qt.q)]
  /\ UNCHANGED << Vl, app_log_fatal, vls, res, qlw, alog, rr >>

\* vl_fn_query_resolve resolves it unless its end code is set
QtResolve ==
  /\ qt.fn = "query" /\ qt.at = "resolve"
  /\ qt' = [qt EXCEPT !.at = "pack",
              !.q = IF qt.q.end_code # -1 THEN qt.q
                    ELSE query_resolve_msg(qt.q, IF qt.records = NoRecords THEN qt.q.query_label
                                                 ELSE qt.records)]
  /\ UNCHANGED << Vl, app_log_fatal, vls, res, qlw, alog, rr >>

\* vl_fn_query_response_pack packs the response unless the end code says
\* that none is sent
QtPack ==
  /\ qt.fn = "query" /\ qt.at = "pack"
  /\ qt' = [qt EXCEPT !.at = "done",
              !.q = IF qt.q.end_code >= 0 THEN query_response_pack_msg(qt.q).q ELSE qt.q]
  /\ UNCHANGED << Vl, app_log_fatal, vls, res, qlw, alog, rr >>

NextQuery == QtParse \/ QtResolve \/ QtPack

SpecQuery == InitQuery /\ [][NextQuery]_vars

(* ----------------------------- properties ------------------------------ *)

\* the addresses linked in queue qn, in order: from the head along the
\* handle of the queue, for as many links as there are objects and one more
RECURSIVE Chain(_, _, _)
Chain(a, handle, fuel) ==
  IF a = NULL \/ fuel = 0 THEN << >>
  ELSE << a >> \o Chain(mem[a][handle], handle, fuel - 1)

Linked(qn, handle) == Chain(vl[qn].head, handle, Cardinality(Addr) + 1)

\* how often address c is linked in the queues qns
RECURSIVE Links(_, _, _)
Links(c, qns, handle) ==
  IF qns = {} THEN 0
  ELSE LET qn == CHOOSE x \in qns : TRUE
           ch == Linked(qn, handle)
       IN Cardinality({ i \in 1 .. Len(ch) : ch[i] = c }) + Links(c, qns \ {qn}, handle)

ReadFifos == {"conn_udp_read_queue", "conn_tcp_read_queue", "conn_tcp_accept_conns_queue"}

WriteFifos == {"conn_udp_write_queue", "conn_tcp_write_queue"}

ReleaseFifos == {"conn_tcp_release_queue"}

\* C1: in every state of a running shard each connection is linked at most
\* once among the read FIFOs (UDP read, TCP read, TCP accept), at most once
\* among the write FIFOs (UDP write, TCP write) and at most once in the
\* release FIFO.
C1_LinkedAtMostOnce ==
  halt = "run" =>
    \A c \in Addr :
      /\ Links(c, ReadFifos, "read_q_handle") <= 1
      /\ Links(c, WriteFifos, "write_q_handle") <= 1
      /\ Links(c, ReleaseFifos, "gen_q_handle") <= 1

\* C1 witness: two connections are linked in the TCP read FIFO, one behind
\* the other, each of them once.
C1_Witness ==
  /\ halt = "run"
  /\ Len(Linked("conn_tcp_read_queue", "read_q_handle")) = 2
  /\ \E c, d \in Heap :
       /\ Linked("conn_tcp_read_queue", "read_q_handle") = << c, d >>
       /\ c # d
       /\ \A x \in {c, d} :
            mem[x].in_read_queue = 1 /\ Links(x, ReadFifos, "read_q_handle") = 1

\* the TCP connections of the shard that are accepted and not yet released
LiveConns == { c \in Heap : mem[c].alloc }

\* C2: the number of live TCP connections of a shard (accepted and not yet
\* released) never exceeds tcp_conns_per_vl_max.
C2_ConnsWithinMax ==
  halt = "run" =>
    /\ Cardinality(LiveConns) <= cfg.tcp_conns_per_vl_max
    /\ vl.conns_tcp_active <= cfg.tcp_conns_per_vl_max

\* C3: the resource worker frees the previously published artifact only
\* after it has received, from every shard, the acknowledgment of the
\* update that replaces it.
C3_FreedAfterAllAcks ==
  \A a \in Artifacts :
    res.heap[a] = "freed" =>
      /\ res.succ[a] # NULL
      /\ \A i \in Shards : << i, res.succ[a] >> \in res.acks

\* C3 witness: a second update went through: the first artifact is freed
\* and the second one is the published one.
C3_Witness ==
  \E a \in Artifacts :
    /\ res.heap[a] = "freed"
    /\ res.current_resource = res.succ[a]
    /\ res.heap[res.current_resource] = "live"

\* the acknowledgment of shard i that waits in its resource channel, or NoMsg
PendingAck(i) ==
  LET ch == vls[i].resource_channel
  IN IF ch.vl.read_index # ch.vl.write_index
     THEN ch.qbsse[ch.vl.array][ch.vl.read_index]
     ELSE NoMsg

\* C4: a shard switches its reference to the new artifact before it sends
\* its acknowledgment: while the acknowledgment of an update is on its way,
\* and once it has been received, the reference of the shard is the pointer
\* of that update.
C4_SwitchedBeforeAck ==
  \A i \in Shards :
    /\ PendingAck(i) # NoMsg => vls[i].resource1 = PendingAck(i).p
    /\ (res.vl_notifications[i] /\ res.incoming_resource # NULL)
         => vls[i].resource1 = res.incoming_resource

\* C5: while the query-log writer reads a slab, that slab is not the active
\* slab of the shard that handed it over.
C5_WriterReadsInactiveSlab ==
  qlw.at = "write" => vls[qlw.i].query_log.buf # qlw.buf

\* C5 witness: the writer reads slab B of a shard, handed over in a second
\* flip, while the shard has added an entry to slab A again.
C5_Witness ==
  /\ qlw.at = "write"
  /\ qlw.buf = "b_buf" /\ qlw.buf_len > 0
  /\ vls[qlw.i].query_log.buf = "a_buf"
  /\ vls[qlw.i].query_log.buf_len > 0

\* C6: a TCP connection is in the LRU set of its shard if and only if it
\* has had a connection id assigned and has not yet been released.
C6_LruIffIdAndLive ==
  halt = "run" =>
    \A c \in Heap :
      InLru(State, c) <=>
        (mem[c].alloc /\ tcp[c].state # "TCP_CONN_ST_ASSIGN_CONN_ID_ERR")

\* C7: every TCP connection whose timeout is earlier than the loop
\* timestamp when the timeout scan runs is released and closed in that
\* iteration: at the end of an iteration no connection of the LRU set is
\* left with a timeout before the timestamp of the iteration.
C7_ExpiredAreReleased ==
  (halt = "run" /\ pc = "timestamp") =>
    \A c \in Heap :
      (mem[c].alloc /\ InLru(State, c)) => ~(tcp[c].timeout < vl.loop_timestamp)

\* C8: for every TCP connection, each query that ended with end_code >= 0
\* has had its response written to the socket exactly once and in full, and
\* the responses were written in the order the queries arrived.  (wire is
\* what went to the socket, by query; logged is what the query log stage
\* saw, with the end codes.)
C8_ResponsesOnceInOrder ==
  halt = "run" =>
    \A c \in Heap :
      mem[c].alloc =>
        LET w == gh[c].wire
            l == gh[c].logged
        IN /\ \A i \in 1 .. Len(l) :
                l[i].end_code >= 0 =>
                  Cardinality({ j \in 1 .. Len(w) :
                                  w[j].q = l[i].q /\ w[j].n = l[i].len }) = 1
           /\ \A j, k \in 1 .. Len(w) : j < k => w[j].q < w[k].q

\* C9: whenever a TCP connection is in state WAIT_FOR_QUERY, its timeout is
\* the loop timestamp at which it entered the state plus the configured
\* tcp_keepalive.
C9_KeepaliveTimeout ==
  halt = "run" =>
    \A c \in Heap :
      (mem[c].alloc /\ tcp[c].state = "TCP_CONN_ST_WAIT_FOR_QUERY") =>
        tcp[c].timeout = tcp[c].entered + tcp_keepalive

C12_TerminalIsReleased ==
  halt = "run" =>
    \A c \in Heap :
      (mem[c].alloc /\ tcp[c].term # "none") =>
        /\ tcp[c].state = tcp[c].term
        /\ pc = "tcp_conn_release" =>
             \E i \in DOMAIN Linked("conn_tcp_release_queue", "gen_q_handle") :
               Linked("conn_tcp_release_queue", "gen_q_handle")[i] = c
        /\ pc # "timestamp"

\* C13: for every query a TCP client sent and the query log stage has seen:
\* query_resolve was called for it only if the parse stage left end_code
\* UNKNOWN; if it ended with end_code >= 0 a response to it went to the
\* socket; and if it ended with SHORT_HEADER, TOO_LARGE or QUERY_TC none did.
C13_ResponseIffEndCodeOk ==
  \A c \in Heap :
    \A i \in 1 .. Len(gh[c].logged) :
      LET e == gh[c].logged[i]
          sent == \E j \in 1 .. Len(gh[c].wire) : gh[c].wire[j].q = e.q
      IN e.q # 0 =>
           /\ e.resolved => e.parsed = rip_ns_r_rip_unknown
           /\ e.end_code >= 0 => sent
           /\ e.end_code \in {rip_ns_r_rip_shortheader, -3, rip_ns_r_rip_query_tc} => ~sent

\* the stages of an iteration, in the order of the claim, after the timestamp
StageOrder ==
  << "timestamp", "channel_messages", "epoll", "udp_read", "tcp_accept_conns",
     "tcp_read", "query_parse", "query_resolve", "query_response_pack", "udp_write",
     "tcp_write", "query_log", "tcp_conn_timeouts", "tcp_conn_release" >>

\* the queue a stage takes its connections from and the handle that links it
StageInput ==
  [udp_read |-> << "conn_udp_read_queue", "read_q_handle" >>,
   tcp_accept_conns |-> << "conn_tcp_accept_conns_queue", "read_q_handle" >>,
   tcp_read |-> << "conn_tcp_read_queue", "read_q_handle" >>,
   query_parse |-> << "query_parse_queue", "gen_q_handle" >>,
   query_resolve |-> << "query_resolve_queue", "gen_q_handle" >>,
   query_response_pack |-> << "query_response_pack_queue", "gen_q_handle" >>,
   udp_write |-> << "conn_udp_write_queue", "write_q_handle" >>,
   tcp_write |-> << "conn_tcp_write_queue", "write_q_handle" >>,
   query_log |-> << "query_log_queue", "gen_q_handle" >>,
   tcp_conn_release |-> << "conn_tcp_release_queue", "gen_q_handle" >>]

\* the stages whose input queue is filled by earlier stages only
Handoff == {"query_parse", "query_resolve", "query_response_pack", "query_log",
            "tcp_conn_release"}

\* C14: the stages of an iteration run in the fixed order, and a stage that
\* returns has dequeued every connection that was linked in its input queue
\* when it began; the queues between parse, resolve, pack, log and release
\* are empty when the stage that reads them returns.
C14_StagesInOrderAndDrained ==
  [][pc' # pc =>
       /\ \E i \in 1 .. Len(StageOrder) :
            /\ pc = StageOrder[i]
            /\ pc' = StageOrder[(i % Len(StageOrder)) + 1]
       /\ (pc \in DOMAIN StageInput /\ halt' = "run") =>
            LET in == Linked(StageInput[pc][1], StageInput[pc][2])
            IN /\ \A k \in 1 .. Len(in) : in[k] \in vl'.seen
               /\ pc \in Handoff => vl'[StageInput[pc][1]].head = NULL]_vars

\* C14 witness: the parse stage has returned after it dequeued two TCP
\* connections, and both wait in the queue of the resolve stage.
C14_Witness ==
  /\ halt = "run" /\ pc = "query_resolve"
  /\ \E c, d \in Heap :
       /\ c # d /\ {c, d} \subseteq vl.seen
       /\ Linked("query_resolve_queue", "gen_q_handle") = << c, d >>

\* the number of messages that wait in one direction of a channel
Outstanding(ch, side) ==
  (ch[side].write_index - ch[side].read_index + CHANNEL_BSS_QUEUE_LEN) % CHANNEL_BSS_QUEUE_LEN

ControlChannels == {"resource_channel", "query_log_channel"}

\* C15: in each direction of the resource channel and of the query-log
\* channel of every shard at most one message waits at any time, no send on
\* them has found its queue full, and the message that waits is the one
\* that was sent last in that direction (none was lost or overwritten).
C15_OneOutstandingNoSendFails ==
  \A i \in Shards : \A n \in ControlChannels : \A side \in {"bss", "vl"} :
    LET ch == vls[i][n]
    IN /\ Outstanding(ch, side) <= 1
       /\ ~ch.send_failed
       /\ Outstanding(ch, side) = 1 =>
            ch.qbsse[ch[side].array][ch[side].read_index] = ch.sent[side]

\* a request of a later round waits in one channel after the ring of its
\* direction has wrapped, while a reply waits in the other direction of a
\* channel whose ring has wrapped too
C15_Witness ==
  \E i, j \in Shards :
    /\ Outstanding(vls[i].resource_channel, "bss") = 1
    /\ vls[i].resource_channel.sent.vl # NoMsg
    /\ vls[i].resource_channel.bss.read_index = CHANNEL_BSS_QUEUE_LEN - 1
    /\ Outstanding(vls[j].query_log_channel, "vl") = 1
    /\ vls[j].query_log_channel.sent.vl.id > NumShards

\* a TCP connection that has had an id assigned and has not been released
HasId(c) == mem[c].alloc /\ tcp[c].state # "TCP_CONN_ST_ASSIGN_CONN_ID_ERR"

\* C16: no two live TCP connections of the shard have the same connection
\* id (an id that conn_tcp_id_assign returns is the id of no connection that
\* is live at that time), and the id base of the shard is the id that was
\* assigned last.
C16_LiveIdsDistinct ==
  halt = "run" =>
    \A c, d \in Heap : (c # d /\ HasId(c) /\ HasId(d)) => mem[c].cid # mem[d].cid

\* C17: no shard reads or writes mutable state that another shard can
\* write: every record query_resolve hands out, and every query_label
\* buffer, that some shard has written has been read and written by one
\* shard only.
C17_NoSharedMutableState ==
  /\ \A k \in 1 .. Len(Records) :
       rr.rec[k].w = {} \/ Cardinality(rr.rec[k].w \cup rr.rec[k].r) <= 1
  /\ \A i \in Shards : rr.label[i].w \cup rr.label[i].r \subseteq {i}

\* C18: when an acknowledgment of a shard is still missing after the polls
\* of 10 seconds, the resource worker has sent a fatal message to the
\* application log (and so does not go on waiting without end).
C18_TimeoutLogsFatal ==
  (res.state = "WAIT_FOR_RESOURCE_UPDATE" /\ res.waited >= TenSeconds) =>
    \E k \in 0 .. (CHANNEL_LOG_QUEUE_LEN - 1) : alog.ch[NumShards + 1].qbsse[k].exit

\* C19: once the application-log worker has handled a batch with a message
\* whose fatal flag is set, the process has exited, whether the log file
\* was open or not.
C19_FatalMessageExits ==
  alog.fatal_recv => alog.exited # "run"

\* C20: a send on a full application log channel drops the message and
\* adds one to app_log_write_error for it: the counter is the number of
\* messages dropped by sends plus the number the worker could not write.
C20_DropCountsWriteError ==
  alog.app_log_write_error = alog.dropped + alog.unwritten

\* what is asked of a valid client subnet option
CsWellFormed(o) ==
  LET family == o.family[1] * 256 + o.family[2]
      n      == (o.source_mask + 7) \div 8
      beyond == Pow2(8 * n - o.source_mask)
  IN /\ o.edns_cs_raw_buf_len >= 4
     /\ (family = 1 /\ o.source_mask <= 32) \/ (family = 2 /\ o.source_mask <= 128)
     /\ o.scope_mask = 0
     /\ o.edns_cs_raw_buf_len - 4 = n
     /\ n > 0 => o.last % beyond = 0

\* C23: query_parse_edns_ext_cs marks an option valid if and only if it has
\* at least 4 bytes, family 1 with source mask <= 32 or family 2 with source
\* mask <= 128, scope mask 0, exactly ceil(source_mask / 8) address bytes,
\* and no bit set in the last address byte beyond the source mask; in every
\* other case it returns an error and leaves the option invalid.
C23_CsValidIffWellFormed ==
  (qt.fn = "query_parse_edns_ext_cs" /\ qt.at = "done") =>
    /\ qt.out.cs.edns_cs_valid <=> CsWellFormed(qt.cs)
    /\ qt.out.cs.edns_cs_valid <=> qt.out.ret = 0

\* the DNS message of a packed response, as a client receives it: a TCP
\* client takes the two bytes of length off
ResponseMsg(q) ==
  IF q.protocol = 1 THEN SubSeq(q.response_buffer, 3, Len(q.response_buffer))
  ELSE q.response_buffer

\* length of the name at position p (from 1) of the message m: labels up
\* to the root or to a pointer
RECURSIVE RespNameLen(_, _)
RespNameLen(m, p) ==
  IF p > Len(m) THEN 1
  ELSE IF m[p] = 0 THEN 1
  ELSE IF m[p] >= 192 THEN 2
  ELSE m[p] + 1 + RespNameLen(m, p + m[p] + 1)

\* the records a client finds in the message m from position p on
RECURSIVE RespRecords(_, _)
RespRecords(m, p) ==
  LET f     == p + RespNameLen(m, p)
      rdlen == m[f + 8] * 256 + m[f + 9]
  IN IF f + 9 > Len(m) THEN << >>
     ELSE << [type |-> m[f] * 256 + m[f + 1], class |-> m[f + 2] * 256 + m[f + 3],
              ttl |-> SubSeq(m, f + 4, f + 7), rdata |-> SubSeq(m, f + 10, f + 9 + rdlen)] >>
          \o RespRecords(m, f + 10 + rdlen)

\* the OPT records of the response of q
RespOpts(q) ==
  LET rs == RespRecords(ResponseMsg(q), sizeof_rip_ns_header_t + 1)
  IN {rs[i] : i \in {j \in 1..Len(rs) : rs[j].type = rip_ns_t_opt}}

\* a complete request with a good header, a question the server answers,
\* and one OPT record as its only additional record
GoodRequestWithOpt(d) ==
  /\ d.hdr = GoodHdr /\ d.cut = 0 /\ d.labels \in {NameRoot, NameAbc, NameLong}
  /\ d.qtype = rip_ns_t_a /\ d.qclass = rip_ns_c_in
  /\ d.other = 0 /\ d.opt.present /\ ~d.ar_lie

\* C21: a request with a valid question and an OPT record whose EDNS
\* version is not 0 gets a response whose rcode is BADVERS (16): the low
\* four bits in the header are 0 and the response holds an OPT record whose
\* extended rcode is 1; that record advertises a UDP size of 512.
C21_BadVersInOpt ==
  (qt.fn = "query" /\ qt.at = "done" /\ GoodRequestWithOpt(qt.d) /\ qt.d.opt.version # 0) =>
    /\ qt.q.response_buffer_len > 0
    /\ ResponseMsg(qt.q)[4] % 16 = 0
    /\ \E o \in RespOpts(qt.q) : o.ttl[1] = 1 /\ o.class = 512

\* a name as a client prints it: its labels joined by dots, "." for the root
RECURSIVE ClientName(_)
ClientName(labels) ==
  IF labels = << >> THEN << 46 >>
  ELSE IF Len(labels) = 1 THEN labels[1]
  ELSE labels[1] \o << 46 >> \o ClientName(Tail(labels))

\* length of the printable form of a name, in which a quoted character
\* takes two bytes and one that is not printable takes four
PresentationLen(labels) ==
  LET width(c)  == IF c \in {34, 46, 59, 92, 40, 41, 64, 36} THEN 2
                   ELSE IF c > 32 /\ c < 127 THEN 1 ELSE 4
      printed(l) == Flatten([i \in 1..Len(l) |-> [j \in 1..width(l[i]) |-> 0]])
  IN IF labels = << >> THEN 1
     ELSE Len(Flatten([i \in 1..Len(labels) |-> printed(labels[i])])) + Len(labels) - 1

\* the end code of the first check of the list that the request d fails,
\* UNKNOWN if it fails none
FirstFailingCheck(d) ==
  LET len == Len(WireRequest(d))
  IN IF len < 12 THEN rip_ns_r_rip_shortheader
     ELSE IF d.hdr.tc = 1 THEN rip_ns_r_rip_query_tc
     ELSE IF d.hdr.opcode # 0 THEN rip_ns_r_notimpl
     ELSE IF d.hdr.qr = 1 THEN rip_ns_r_formerr
     ELSE IF d.hdr.qdcount = 0 THEN rip_ns_r_formerr
     ELSE IF d.hdr.qdcount > 1 THEN rip_ns_r_notimpl
     ELSE IF d.hdr.ancount # 0 \/ d.hdr.nscount # 0 THEN rip_ns_r_formerr
     ELSE IF len < QuestionEnd(d) THEN rip_ns_r_formerr
     ELSE IF d.qtype # 1 \/ d.qclass # 1 THEN rip_ns_r_notimpl
     ELSE rip_ns_r_rip_unknown

\* the parsed label, type and class are those of the request d
ParsedAsAsked(q, d) ==
  /\ q.query_label = ClientName(d.labels) /\ q.query_label_len = Len(ClientName(d.labels))
  /\ q.query_q_type = d.qtype /\ q.query_q_class = d.qclass

PackedTcp ==
  qt.fn = "query" /\ qt.at = "done" /\ qt.q.protocol = 1 /\ qt.q.end_code >= 0

\* end of the last record that stands in the message m
RespEnd(m) ==
  LET rs == RespRecords(m, sizeof_rip_ns_header_t + 1)
      RECURSIVE end(_, _)
      end(p, k) == IF k = 0 THEN p
                   ELSE end(p + RespNameLen(m, p) + 10 + m[p + RespNameLen(m, p) + 8] * 256
                              + m[p + RespNameLen(m, p) + 9], k - 1)
  IN end(sizeof_rip_ns_header_t + 1, Len(rs)) - 1

\* C24: for every packed response whose transport is TCP, bytes 0 and 1 of
\* the response buffer hold, in network order, the length of the DNS message
\* that starts at offset 2 (its header and the records that were packed),
\* and response_buffer_len is that length plus two, also when the response
\* was truncated.
C24_TcpLengthPrefix ==
  PackedTcp =>
    LET buf == qt.q.response_buffer
        m   == ResponseMsg(qt.q)
    IN /\ Len(m) >= sizeof_rip_ns_header_t
       /\ RespEnd(m) = Len(m)
       /\ buf[1] * 256 + buf[2] = Len(m)
       /\ qt.q.response_buffer_len = Len(m) + 2

\* a TCP response that was truncated: its TC bit is set
C24_Witness ==
  /\ PackedTcp
  /\ (ResponseMsg(qt.q)[3] \div 2) % 2 = 1
  /\ qt.q.response_buffer_len = sizeof_rip_ns_header_t + 2

\* the iteration that just ended was idle
AfterIdle == qt.fn = "vl_run" /\ qt.at = "stages" /\ qt.n > 0 /\ qt.ret = 0

RECURSIVE Dequeues(_, _, _)
Dequeues(S, qn, fuel) ==
  LET c == fifo_head(S, qn)
  IN IF c = NULL \/ fuel = 0 \/ S.halt # "run" THEN << >>
     ELSE << c >> \o Dequeues(conn_fifo_dequeue_write(S, qn), qn, fuel - 1)

\* live connections that are waiting to write and have written a part of a
\* response
PartlyWritten ==
  { c \in Heap : /\ mem[c].alloc /\ tcp[c].state = "TCP_CONN_ST_WAIT_FOR_WRITE"
                 /\ tcp[c].write_index > 0 }

\* C26: when the TCP write stage of an iteration starts, every TCP
\* connection that has written a part of a response is in the TCP write
\* queue (the stage dequeues it), and its write position is the first
\* unwritten byte of that same response: the query at query_write_index is
\* the one whose bytes went to the socket last, and write_index is the
\* number of its bytes that went out.  This holds however many connections
\* wrote a part in the same iteration.
C26_PartialWritesRequeued ==
  (halt = "run" /\ pc = "tcp_write") =>
    \A c \in PartlyWritten :
      LET w == gh[c].wire
          q == Dequeues(State, "conn_tcp_write_queue", Cardinality(Addr) + 1)
      IN /\ \E i \in DOMAIN q : q[i] = c
         /\ w # << >>
         /\ tcp[c].query_write_index < tcp[c].queries_count
         /\ tcp[c].queries[tcp[c].query_write_index + 1].q = w[Len(w)].q
         /\ tcp[c].write_index = w[Len(w)].n

\* connections whose write in the write stage that starts now would block:
\* the stage dequeues them, they have a response to write and the send
\* buffer of their socket is full
WouldBlock ==
  { c \in Heap :
      /\ mem[c].alloc /\ mem[c].fd >= 0
      /\ kern.sock[c].st \in {"open", "fin"} /\ kern.sock[c].tx = "full"
      /\ \E i \in DOMAIN Dequeues(State, "conn_tcp_write_queue", Cardinality(Addr) + 1) :
           Dequeues(State, "conn_tcp_write_queue", Cardinality(Addr) + 1)[i] = c
      /\ \E i \in (tcp[c].query_write_index + 1) .. tcp[c].queries_count :
           /\ tcp[c].queries[i].end_code >= 0
           /\ tcp[c].queries[i].response_buffer_len - tcp[c].write_index > 0 }

\* C27: a TCP write that would block (EAGAIN/EWOULDBLOCK) is not treated as
\* a failure: when the write stage returns, a connection whose write would
\* block is still in WAIT_FOR_WRITE, has waiting_for_write set and none of
\* its queries has a write error as its end code.
C27_WouldBlockWaits ==
  [][(pc = "tcp_write" /\ pc' = "query_log" /\ halt' = "run") =>
       \A c \in WouldBlock :
         /\ tcp'[c].state = "TCP_CONN_ST_WAIT_FOR_WRITE"
         /\ mem'[c].waiting_for_write = 1
         /\ \A i \in 1 .. tcp[c].queries_count :
              tcp'[c].queries[i].end_code # rip_ns_r_rip_tcp_write_err]_vars

\* the responses of the batch UDP listener l works on, in the order of its
\* queries
BatchResponses(l) ==
  LET u == udp[l]
      F[i \in 0 .. u.read_vector_count] ==
        IF i = 0 THEN << >>
        ELSE IF u.queries[i].end_code > -1 THEN Append(F[i - 1], [b |-> u.batch, i |-> i])
        ELSE F[i - 1]
  IN F[u.read_vector_count]

\* the responses of the current batch of listener l that went out
SentOfBatch(l) == SelectSeq(udp[l].sent, LAMBDA x : x.b = udp[l].batch)

\* C28: on every UDP listener, also when several listeners are written in
\* the same stage, what went to the socket is responses of the batches
\* only, each once and in the order of the batches and of the queries in
\* them (no slot outside the batch is sent, none twice); a listener of
\* whose batch a part was sent is in the UDP write queue when the write
\* stage starts, or waits for its socket to become writable; and a
\* listener that reached the query log has sent every response of its
\* batch.
C28_UdpBatchSentOnceInOrder ==
  halt = "run" =>
    \A l \in UdpListeners :
      LET snt == udp[l].sent
          all == BatchResponses(l)
          part == SentOfBatch(l)
          q == Dequeues(State, "conn_udp_write_queue", Cardinality(Addr) + 1)
          lg == Linked("query_log_queue", "gen_q_handle")
      IN /\ \A j \in DOMAIN snt : snt[j] # NoSlot
         /\ \A j, k \in DOMAIN snt :
              j < k => (snt[j].b < snt[k].b \/ (snt[j].b = snt[k].b /\ snt[j].i < snt[k].i))
         /\ \A j \in DOMAIN part : j <= Len(all) /\ part[j] = all[j]
         /\ (pc = "udp_write" /\ part # << >> /\ Len(part) < Len(all)) =>
              (mem[l].waiting_for_write = 1 \/ \E j \in DOMAIN q : q[j] = l)
         /\ (pc = "query_log" /\ \E j \in DOMAIN lg : lg[j] = l) => part = all

\* TCP connections at rest at the top of an iteration: open, with nothing
\* unread in the socket, no event pending, in no read or write queue, and
\* whose send buffer never ran short
AtRest ==
  { c \in Heap :
      /\ mem[c].alloc /\ kern.sock[c].st = "open"
      /\ kern.sock[c].rx = << >> /\ kern.sock[c].pend = << >>
      /\ kern.sock[c].tx = "free" /\ kern.stalls = 0
      /\ \A j \in DOMAIN kern.ep_tcp : kern.ep_tcp[j] # c
      /\ mem[c].in_read_queue = 0 /\ mem[c].in_write_queue = 0 }

\* C29: the frames a read delivers beyond tcp_conn_simultaneous_queries_count
\* are parsed and answered in a following iteration without further bytes
\* from the client: when a connection whose client sent more whole frames
\* than that count is at rest at the top of an iteration, a response to
\* every one of the frames went to the socket.
C29_LeftoverFramesAnswered ==
  (halt = "run" /\ pc = "timestamp") =>
    \A c \in AtRest :
      kern.sock[c].sent > tcp_conn_simultaneous_queries_count =>
        \A q \in 1 .. kern.sock[c].sent : \E j \in DOMAIN gh[c].wire : gh[c].wire[j].q = q

\* C30: every stage of an iteration terminates and dequeues no connection
\* from the same queue twice, whatever the queues hold and whatever the
\* system calls return: no loop of a stage runs on for ever (not that of
\* the UDP read stage after a read error, nor the scrub of the TCP read and
\* write queues in the release stage), and a stage that has returned took
\* each connection from each queue at most once.
C30_StagesVisitOnce ==
  /\ halt # "hung"
  /\ halt = "run" => ~vl.revisit

(* ------------------------------ C31 ------------------------------------ *)

\* TCP connections the step gives a new state or a new timeout
Touched ==
  { c \in Heap : /\ mem[c].alloc /\ mem'[c].alloc
                 /\ \/ tcp'[c].state # tcp[c].state
                    \/ tcp'[c].timeout # tcp[c].timeout }

\* C31: a TCP connection the pack stage or the query-log stage gives a new
\* state and timeout is moved to the most-recent end of the LRU set: when
\* the stage returns, no connection the stage did not touch is more recent
\* in the LRU set than one it touched.
C31_TouchedIsMostRecent ==
  [][(pc \in {"query_response_pack", "query_log"} /\ pc' # pc /\ halt' = "run") =>
       LET L == vl'.conn_tcp_lru_cache
       IN \A i \in 1 .. Len(L) : \A j \in 1 .. Len(L) :
            (i < j /\ L[i] \in Touched) => L[j] \in Touched]_vars

(* --------------- the loop of vl_run with its locals -------------------- *)

\* the UDP listeners, whose send buffers may stall twice
CfgRun ==
  [udp_enable |-> TRUE, tcp_enable |-> FALSE, arrivals |-> 0, frames |-> 0,
   kinds |-> {}, cuts |-> {}, ticks |-> 0, stalls |-> RunStalls, faults |-> FALSE,
   tcp_conns_per_vl_max |-> tcp_conns_per_vl_max]

InitRun ==
  /\ cfg = CfgRun /\ ProgramStart
  /\ qt = [fn |-> "vl_run", at |-> "loop",
           cfg |-> [loop_slowdown_one |-> 1, loop_slowdown_two |-> 50, loop_slowdown_three |-> 100],
           idle_count |-> U32(0, 0), ret |-> 0, usleep |-> 0, n |-> 0, work |-> FALSE]

NextRun ==
  \/ VlTimestamp
  \/ VlChannelMessages
  \/ VlEpoll
  \/ VlUdpRead
  \/ VlTcpAcceptConns
  \/ VlTcpRead
  \/ VlQueryParse
  \/ VlQueryResolve
  \/ VlQueryResponsePack
  \/ VlUdpWrite
  \/ VlTcpWrite
  \/ VlQueryLog
  \/ VlTcpConnTimeouts
  \/ VlTcpConnRelease
  \/ \E l \in UdpListeners : DgramArrive(l, "ok")
  \/ \E l \in UdpListeners, v \in {"short", "full"} : UdpTxStall(l, v)
  \/ \E l \in UdpListeners : UdpTxDrain(l)

SpecRun == InitRun /\ [][NextRun]_vars

(* ------------------------------ C32 ------------------------------------ *)

\* C32: the idle counter is incremented in exactly the iterations in which
\* none of the channel, readiness, read, accept and write stages had
\* anything to do, and is zero after every other iteration, whatever the
\* stages return.
C32_IdleIffNoWork ==
  [][(pc = "tcp_conn_release" /\ pc' = "timestamp" /\ halt' = "run") =>
       IF qt.work THEN qt'.idle_count = U32(0, 0)
       ELSE qt'.idle_count = U32Inc(qt.idle_count)]_vars

(* ------------------------------ C33 ------------------------------------ *)

\* TCP listeners the accept stage that just returned has served and whose
\* backlog still holds connections: the pass on them did not stop because
\* accept4 would block
StoppedByCap ==
  { l \in TcpListeners : pc = "tcp_read" /\ l \in vl.seen /\ kern.backlog[l] > 0 }

\* C33: when the accept pass on a TCP listener stops at the accept cap of
\* the iteration or at the connection cap of the shard, and not because
\* accept would block, the listener is linked in the accept queue for the
\* next iteration: it does not wait for a readiness event and no fatal
\* listener error is reported.
C33_CappedListenerRequeued ==
  halt = "run" =>
    \A l \in StoppedByCap :
      /\ \E i \in DOMAIN Linked("conn_tcp_accept_conns_queue", "read_q_handle") :
           Linked("conn_tcp_accept_conns_queue", "read_q_handle")[i] = l
      /\ mem[l].waiting_for_read = 0
      /\ ~app_log_fatal

(* ------------------- the timeouts of a TCP connection ------------------ *)

\* a struct timespec
Timespec(tv_sec, tv_nsec) == [tv_sec |-> tv_sec, tv_nsec |-> tv_nsec]

\* "timeout = vl->loop_timestamp; timeout.tv_sec += setting;"
timeout_set(loop_timestamp, setting) ==
  [loop_timestamp EXCEPT !.tv_sec = @ + setting]

\* the places that set the timeout of a TCP connection and the setting each
\* of them adds: accept, the read that finds nothing and the buffer empty,
\* the read of a partial query, the pack stage, and the query-log stage with
\* and without bytes left over.  The read stage adds the keepalive member
\* of the connection, which nothing assigns.
TimeoutSites == {"accept", "read_idle", "read_data", "pack", "log_data", "log_idle"}

timeout_at(site, loop_timestamp, c) ==
  CASE site \in {"accept", "read_data", "log_data"} ->
         timeout_set(loop_timestamp, c.tcp_query_recv_timeout)
    [] site = "read_idle" -> timeout_set(loop_timestamp, conn_tcp_new.tcp_keepalive)
    [] site = "pack" -> timeout_set(loop_timestamp, c.tcp_query_send_timeout)
    [] site = "log_idle" -> timeout_set(loop_timestamp, c.tcp_keepalive)

\* settings as the command line takes them, and loop timestamps
TimeoutSettings ==
  [tcp_keepalive : {1000, 10000, 600000}, tcp_query_recv_timeout : {1, 2000},
   tcp_query_send_timeout : {1, 2500}]

LoopTimestamps == { Timespec(s, n) : s \in {0, 1700000}, n \in {0, 999999999} }

InitTimeout ==
  /\ InitProgram /\ cfg = CfgUdp
  /\ qt \in [fn : {"timeout"}, site : TimeoutSites, cfg : TimeoutSettings,
             loop_timestamp : LoopTimestamps, timeout : {Timespec(0, 0)}, set : {FALSE}]

TimeoutSet ==
  /\ qt.fn = "timeout" /\ ~qt.set
  /\ qt' = [qt EXCEPT !.timeout = timeout_at(qt.site, qt.loop_timestamp, qt.cfg), !.set = TRUE]
  /\ UNCHANGED << Vl, app_log_fatal, vls, res, qlw, alog, rr >>

SpecTimeout == InitTimeout /\ [][TimeoutSet]_vars

(* ------------------------------ C34 ------------------------------------ *)

\* the time ms milliseconds after ts
AfterMs(ts, ms) ==
  LET n == ts.tv_nsec + (ms % 1000) * 1000000
  IN Timespec(ts.tv_sec + (ms \div 1000) + (n \div 1000000000), n % 1000000000)

\* the setting that applies where the timeout is set
SettingAt(site, c) ==
  CASE site \in {"accept", "read_data", "log_data"} -> c.tcp_query_recv_timeout
    [] site = "pack" -> c.tcp_query_send_timeout
    [] OTHER -> c.tcp_keepalive

\* C34: tcp_keepalive, tcp_query_recv_timeout and tcp_query_send_timeout
\* are in milliseconds, and a timeout of a TCP connection is set to the
\* loop timestamp plus that many milliseconds.
C34_TimeoutInMilliseconds ==
  (qt.fn = "timeout" /\ qt.set) =>
    qt.timeout = AfterMs(qt.loop_timestamp, SettingAt(qt.site, qt.cfg))

(* ------------------------------ C35 ------------------------------------ *)

\* the queues that hand a connection to the parse, resolve, pack, write and
\* query-log stages, with the handle each is linked by
WorkQueues ==
  { << "query_parse_queue", "gen_q_handle" >>, << "query_resolve_queue", "gen_q_handle" >>,
    << "query_response_pack_queue", "gen_q_handle" >>,
    << "conn_tcp_write_queue", "write_q_handle" >>, << "query_log_queue", "gen_q_handle" >> }

\* TCP connections that took a terminal state and are enqueued for release
Ended ==
  { c \in Heap : mem[c].alloc /\ tcp[c].term # "none" /\ mem[c].in_release_queue = 1 }

\* C35: a TCP connection whose state is terminal and that has been enqueued
\* for release keeps that state, and sits in none of the parse, resolve,
\* pack, write and query-log queues, until the release stage takes it.
C35_TerminalAbsorbing ==
  halt = "run" =>
    \A c \in Ended :
      /\ tcp[c].state \in TerminalStates
      /\ \A q \in WorkQueues :
           \A i \in DOMAIN Linked(q[1], q[2]) : Linked(q[1], q[2])[i] # c

(* ------------------------------ C36 ------------------------------------ *)

\* C36: a TCP connection object that has been freed is referred to by no
\* queue of the shard (neither as head or tail nor through the queue handle
\* of another object) and by no entry of the LRU set.
C36_FreedNotReferenced ==
  halt = "run" =>
    \A a \in Heap :
      ~mem[a].alloc => (~Referenced(State, a) /\ ~InLru(State, a))

(* ------------------------------ C37 ------------------------------------ *)

\* the handle the objects of queue qn are linked by
HandleOf(qn) ==
  IF qn \in ReadFifos THEN "read_q_handle"
  ELSE IF qn \in WriteFifos THEN "write_q_handle" ELSE "gen_q_handle"

\* object c is linked in one of the queues of the shard
InSomeQueue(c) ==
  \E qn \in QueueNames \ {"new_queue"} :
    \E i \in DOMAIN Linked(qn, HandleOf(qn)) : Linked(qn, HandleOf(qn))[i] = c

\* object c waits for an event its socket is registered for: the UDP
\* listeners for EPOLLIN and EPOLLOUT, the TCP sockets for EPOLLIN only
AwaitsEvent(c) ==
  \/ mem[c].waiting_for_read = 1
  \/ c \in UdpListeners /\ mem[c].waiting_for_write = 1

\* the listeners and the TCP connections the shard serves
Served == { c \in Addr : mem[c].alloc /\ mem[c].fd >= 0 }

\* C37: at the end of every iteration of a shard that runs and has logged no
\* fatal message, each UDP listener, TCP listener and live TCP connection is
\* linked in one of the queues of the shard or has a waiting flag set for an
\* event its socket is registered for.
C37_QueuedOrWaiting ==
  (halt = "run" /\ pc = "timestamp" /\ ~app_log_fatal) =>
    \A c \in Served : InSomeQueue(c) \/ AwaitsEvent(c)

(* ------------------------------ C38 ------------------------------------ *)

\* the sockets accept4 handed out during the step
Accepted == { l \in TcpListeners : kern'.backlog[l] < kern.backlog[l] }

AcceptedCount ==
  LET RECURSIVE Sum(_)
      Sum(L) == IF L = {} THEN 0
                ELSE LET l == CHOOSE x \in L : TRUE
                     IN (kern.backlog[l] - kern'.backlog[l]) + Sum(L \ {l})
  IN Sum(Accepted)

\* the connection objects made during the step that are in the LRU set or
\* in the release queue (a rejected socket is closed and queued for release)
NewlyTracked ==
  { a \in Heap : /\ ~mem[a].alloc /\ mem'[a].alloc
                 /\ \/ \E i \in DOMAIN vl'.conn_tcp_lru_cache : vl'.conn_tcp_lru_cache[i] = a
                    \/ mem'[a].in_release_queue = 1 /\ kern'.sock[a].st # "open" }

\* C38: every socket accept returned during an accept pass is, at the end
\* of the pass, tracked as a TCP connection of the shard (in the LRU set or
\* in the release queue) or closed.
C38_AcceptedTrackedOrClosed ==
  [][(pc = "tcp_accept_conns" /\ pc' = "tcp_read") =>
       AcceptedCount = Cardinality(NewlyTracked)]_vars

(* ------------------------------ C39 ------------------------------------ *)

\* C39: for every TCP connection 0 <= read_buffer_len <= read_buffer_size at
\* all times (read_buffer_len is followed as the signed value of the size_t
\* field: below zero stands for a length wrapped around far above the size
\* of the buffer).
C39_ReadBufferLenInBounds ==
  \A c \in Heap :
    mem[c].alloc =>
      (0 <= tcp[c].read_buffer_len /\ tcp[c].read_buffer_len <= tcp_readbuff_size)

(* ------------------------------ C40 ------------------------------------ *)

OtherSide(side) == IF side = "bss" THEN "vl" ELSE "bss"

\* the elements the queue of direction `side` of channel ch is set up over
ElementsOf(ch, side) == ch.qbsse[ch[side].array]

\* C40: the two directions of a control channel are independent queues: a
\* message sent in one direction is not stored in, and so never overwrites
\* or shows through, the elements of the queue of the other direction.
C40_DirectionsIndependent ==
  [][\A i \in Shards : \A n \in ControlChannels : \A side \in {"bss", "vl"} :
       (/\ vls'[i][n][side].write_index # vls[i][n][side].write_index
        /\ vls'[i][n][OtherSide(side)].write_index = vls[i][n][OtherSide(side)].write_index)
         => ElementsOf(vls'[i][n], OtherSide(side)) = ElementsOf(vls[i][n], OtherSide(side))]_vars

====
